---- MODULE Spec2Model ----
(***************************************************************************)
(* Model of the DataFactory engine (Scripts/DataFactory/engine.py):        *)
(* OrchestrationService.process_all runs one task per registered dataset,  *)
(* sequentially or on a thread pool; each task builds a PipelineExecutor   *)
(* through PipelineFactory.create_pipeline and runs PipelineExecutor       *)
(* .execute over the step list, with the two-tier CacheManager in between. *)
(***************************************************************************)
EXTENDS Integers, Sequences, FiniteSets, TLC

(* ------------------------------ bounds --------------------------------- *)
\* number of registered datasets
NumDatasets == 2
\* largest configured max_workers value explored
MaxWorkers == 2

(* --------------------------- program constants ------------------------- *)
DatasetNames == <<"Loan", "Fraud", "Market", "Macro">>

Datasets == {DatasetNames[i] : i \in 1..NumDatasets}

DatasetIndex(d) == CHOOSE i \in 1..NumDatasets : DatasetNames[i] = d

\* default of get_config('current_dataset', 'Unknown') when the key is absent
UnknownDataset == "Unknown"
\* value process_all resets the marker to
SystemContext == ""

StepNames == {"DataCleaning", "Transformation", "DataValidation_Pre",
              "DataFixer", "DataValidation_Post", "FinalCleanup"}

ValidationStatuses == {"passed", "warning", "failed", "error"}

(* ------------------------------- tables -------------------------------- *)
\* A table is abstracted to the dataset whose file it was loaded from and
\* the number of table-changing steps applied to it so far.
Table(o, n) == [kind |-> "table", owner |-> o, stage |-> n]
EmptyTable == [kind |-> "empty", owner |-> "", stage |-> 0]
NoneTable == [kind |-> "none", owner |-> "", stage |-> 0]
\* a cache file that read_pickle cannot load
CorruptTable == [kind |-> "corrupt", owner |-> "", stage |-> 0]

IsEmpty(t) == t.kind = "empty"

\* a validation result dictionary; "by" records the step that produced it
ValidationResult(s, p, n) == [status |-> s, validation_pass |-> p, by |-> n]
NoneResult == [status |-> "none", validation_pass |-> 0, by |-> "none"]

(* ---------------------------- CacheManager ----------------------------- *)
\* a name is the sequence of the parts its text has between underscores,
\* <<"Loan", "Extra">> for "Loan_Extra"; cache_key = f"{dataset_name}_{step_name}"
\* is then the concatenation of the two sequences, and a tier maps the
\* cache keys it holds to tables
EmptyTier == [k \in {} |-> NoneTable]

Put(tier, key, df) ==
    [k \in DOMAIN tier \cup {key} |-> IF k = key THEN df ELSE tier[k]]

\* a get_from_cache that looks in the disk tier before the memory tier
get_from_cache_disk_first(enabled, memory, disk, dataset_name, step_name) ==
    LET cache_key == dataset_name \o step_name IN
    IF ~enabled THEN [value |-> NoneTable, memory |-> memory]
    ELSE IF cache_key \in DOMAIN disk /\ disk[cache_key] # CorruptTable
         THEN [value |-> disk[cache_key],
               memory |-> Put(memory, cache_key, disk[cache_key])]
    ELSE IF cache_key \in DOMAIN memory
         THEN [value |-> memory[cache_key], memory |-> memory]
    ELSE [value |-> NoneTable, memory |-> memory]

\* get_from_cache: [value, memory'] ; memory tier first, then the disk tier
\* (a disk hit is copied into the memory tier; a file that fails to load is
\* logged and counts as absent)
get_from_cache(enabled, memory, disk, dataset_name, step_name) ==
    LET cache_key == dataset_name \o step_name IN
    IF ~enabled THEN [value |-> NoneTable, memory |-> memory]
    ELSE IF cache_key \in DOMAIN memory
         THEN [value |-> memory[cache_key], memory |-> memory]
    ELSE IF cache_key \in DOMAIN disk /\ disk[cache_key] # CorruptTable
         THEN [value |-> disk[cache_key],
               memory |-> Put(memory, cache_key, disk[cache_key])]
    ELSE [value |-> NoneTable, memory |-> memory]

\* a save_to_cache that writes the file but not the memory tier
save_to_cache_disk_only(enabled, writable, memory, disk, df, dataset_name, step_name) ==
    LET cache_key == dataset_name \o step_name IN
    IF ~enabled \/ df = NoneTable \/ IsEmpty(df)
    THEN [memory |-> memory, disk |-> disk]
    ELSE [memory |-> memory,
          disk |-> IF writable THEN Put(disk, cache_key, df) ELSE disk]

\* save_to_cache: [memory', disk'] ; nothing is stored when caching is off
\* or the table is None or empty; a failing pickle write leaves the disk tier
save_to_cache(enabled, writable, memory, disk, df, dataset_name, step_name) ==
    LET cache_key == dataset_name \o step_name IN
    IF ~enabled \/ df = NoneTable \/ IsEmpty(df)
    THEN [memory |-> memory, disk |-> disk]
    ELSE [memory |-> Put(memory, cache_key, df),
          disk |-> IF writable THEN Put(disk, cache_key, df) ELSE disk]

(* --------------------------- PipelineFactory --------------------------- *)
\* a create_pipeline that adds the fixer before the first validation
create_pipeline_steps_fixer_first(validate_after_fixing) ==
    <<"DataCleaning", "Transformation", "DataFixer", "DataValidation_Pre">>
    \o (IF validate_after_fixing THEN <<"DataValidation_Post">> ELSE <<>>)
    \o <<"FinalCleanup">>

\* the step list create_pipeline adds to the executor
create_pipeline_steps(validate_after_fixing) ==
    <<"DataCleaning", "Transformation", "DataValidation_Pre", "DataFixer">>
    \o (IF validate_after_fixing THEN <<"DataValidation_Post">> ELSE <<>>)
    \o <<"FinalCleanup">>

IsValidationStep(name) == name \in {"DataValidation_Pre", "DataValidation_Post"}

\* what a step's execute can do on a non-empty table
StepOutcomes(name) ==
    CASE name \in {"DataCleaning", "Transformation"} -> {"ok", "empty"}
      [] IsValidationStep(name) -> {"ok"}
      [] name = "DataFixer" -> {"ok", "raise"}
      [] OTHER -> {"ok"}

\* a validation step that hands on an empty table instead of its input
StepExecute_validation_drops_table(name, outcome, df) ==
    IF IsEmpty(df) THEN df
    ELSE IF IsValidationStep(name) THEN EmptyTable
    ELSE IF outcome = "empty" THEN EmptyTable
    ELSE Table(df.owner, df.stage + 1)

\* the table a step's execute returns
StepExecute(name, outcome, df) ==
    IF IsEmpty(df) THEN df
    ELSE IF IsValidationStep(name) THEN df
    ELSE IF outcome = "empty" THEN EmptyTable
    ELSE Table(df.owner, df.stage + 1)


(* ------------------------------- state --------------------------------- *)
VARIABLES
    config,     \* the Configuration provider's settings (shared by all tasks)
    env,        \* the file system outside the program's control
    task,       \* per dataset: the _process_dataset call and its executor
    disk,       \* the cache directory: key -> pickled table
    outputs,    \* the output directory: dataset -> {dataset}_cooked.csv
    summary,    \* process_all's processing_summary list
    phase,      \* "processing" until process_all has returned
    validator,  \* a ValidationPipeline called directly: its counter, input and result
    fixer,      \* a fixer strategy or FixerPipeline called directly: input, result, counter
    cache,      \* a CacheManager called directly: its two tiers and the last lookup
    transformer, \* a SchemaStrategy called directly: input, result, fields for generation
    generator,  \* DataGenerationStrategy: the class-level registries and the callers
    reporter,   \* DataQualityReporter objects, their locks and the threads using them
    cleanup     \* a FinalCustomStep called directly: input and result

vars == <<config, env, task, disk, outputs, summary, phase, validator, fixer,
          cache, transformer, generator, reporter, cleanup>>

\* the return value of PipelineExecutor.execute: a 3-tuple, or a bare value
Triple(s, t, v) == [arity |-> 3, success |-> s, table |-> t, validation |-> v]
Bare(s) == [arity |-> 1, success |-> s, table |-> NoneTable, validation |-> NoneResult]
\* execute left by an exception instead of a return
Escaped == [arity |-> -1, success |-> FALSE, table |-> NoneTable, validation |-> NoneResult]
NoReturn == [arity |-> 0, success |-> FALSE, table |-> NoneTable, validation |-> NoneResult]

AbsentKey == "<absent>"

\* the dictionary _process_dataset hands to process_all
ResultDict(s, d, t, v) ==
    [status |-> s, dataset |-> d, df |-> t, validation_results |-> v]
NoResult == ResultDict("none", AbsentKey, NoneTable, NoneResult)

\* the prior run's cache files for dataset d, when they were not cleaned up
StageAfter(name) ==
    CASE name = "DataCleaning" -> 1
      [] name \in {"Transformation", "DataValidation_Pre"} -> 2
      [] name \in {"DataFixer", "DataValidation_Post"} -> 3
      [] OTHER -> 4

StaleTier(d) ==
    [k \in {d} \X StepNames |-> Table(d, StageAfter(k[2]))]

\* the same files, unreadable
CorruptTier(d) ==
    [k \in {d} \X StepNames |-> CorruptTable]

\* the files of a prior run that ended in its DataFixer step
PartialTier(d) ==
    [k \in {d} \X {"DataCleaning", "Transformation", "DataValidation_Pre"} |->
        Table(d, StageAfter(k[2]))]

\* the components that process_all drives through the executor are not
\* called directly during a run
IdleValidator == [validation_count |-> 0, pc |-> "idle"]
IdleFixer == [pc |-> "idle"]
Idle == [pc |-> "idle"]

InitTask ==
    [pc |-> "queued", dataset_name |-> UnknownDataset, steps |-> <<>>, idx |-> 0,
     df |-> NoneTable, memory |-> EmptyTier, validation_count |-> 0,
     last_validation_results |-> NoneResult, log |-> <<>>,
     checkpoint_failed |-> FALSE, saved |-> "none", ret |-> NoReturn,
     result |-> NoResult]

Init ==
    /\ config \in [parallel_processing : BOOLEAN, max_workers : 1..MaxWorkers,
                   enable_caching : BOOLEAN, checkpointing : BOOLEAN,
                   validate_after_fixing : BOOLEAN,
                   current_dataset : {UnknownDataset}]
    /\ (~config.parallel_processing => config.max_workers = 1)
    /\ env \in [cache_writable : BOOLEAN]
    /\ (~config.enable_caching => env.cache_writable)
    /\ task = [d \in Datasets |-> InitTask]
    /\ disk \in {EmptyTier} \cup
                (IF config.enable_caching
                 THEN {StaleTier(d) : d \in Datasets} \cup {CorruptTier(d) : d \in Datasets}
                         \cup {PartialTier(d) : d \in Datasets}
                 ELSE {})
    /\ outputs = [d \in Datasets |-> NoneTable]
    /\ summary = <<>>
    /\ phase = "processing"
    /\ validator = IdleValidator
    /\ fixer = IdleFixer
    /\ cache = Idle
    /\ transformer = Idle
    /\ generator = Idle
    /\ reporter = Idle
    /\ cleanup = Idle

(* --------------------------- Configuration ----------------------------- *)
get_config(key) == config[key]

set_current_dataset(value) == [config EXCEPT !.current_dataset = value]

(* ------------------------ OrchestrationService ------------------------- *)
Parallel == get_config("parallel_processing") /\ NumDatasets > 1

Running == {d \in Datasets : task[d].pc \in {"context", "created", "run", "save"}}

\* a process_all whose loop ends at the first dataset that failed
CanStart_stops_at_failure(d) ==
    /\ phase = "processing"
    /\ task[d].pc = "queued"
    /\ \A e \in Datasets : task[e].result.status # "error"
    /\ IF Parallel
       THEN /\ \A e \in Datasets : DatasetIndex(e) < DatasetIndex(d) => task[e].pc # "queued"
            /\ Cardinality(Running) < get_config("max_workers")
       ELSE \A e \in Datasets : DatasetIndex(e) < DatasetIndex(d) => task[e].pc = "collected"

\* the worker pool takes the submitted tasks in submission order, at most
\* max_workers at a time; the sequential loop takes the next dataset once
\* the previous one's summary is recorded
CanStart(d) ==
    /\ phase = "processing"
    /\ task[d].pc = "queued"
    /\ IF Parallel
       THEN /\ \A e \in Datasets : DatasetIndex(e) < DatasetIndex(d) => task[e].pc # "queued"
            /\ Cardinality(Running) < get_config("max_workers")
       ELSE \A e \in Datasets : DatasetIndex(e) < DatasetIndex(d) => task[e].pc = "collected"

FileInputs == {"none", "empty", "single", "multi", "multi_empty"}

\* _process_dataset on return of execute: unpack the 3-tuple; anything that
\* raises (also the failed unpacking) ends in the except branch
ProcessResult(d, ret) ==
    IF ret.arity # 3
    THEN ResultDict("error", d, NoneTable, NoneResult)
    ELSE ResultDict(IF ret.success THEN "success" ELSE "error", d,
                    IF ret.success THEN ret.table ELSE NoneTable, ret.validation)

Returned(t, d, ret) ==
    [t EXCEPT !.pc = "done", !.ret = ret, !.result = ProcessResult(d, ret)]

\* process_all / _process_dataset up to the call of create_pipeline
Start(d) ==
    /\ CanStart(d)
    /\ config' = set_current_dataset(d)
    /\ \E files \in FileInputs :
         task' = [task EXCEPT ![d] =
            CASE files = "none" ->
                   \* len(None) raises outside the try: process_all records it
                   [@ EXCEPT !.pc = "done", !.result = ResultDict("error", d, NoneTable, NoneResult)]
              [] files \in {"empty", "multi_empty"} ->
                   \* an error dictionary without the 'dataset' key
                   [@ EXCEPT !.pc = "done", !.result = ResultDict("error", AbsentKey, NoneTable, NoneResult)]
              [] OTHER -> [@ EXCEPT !.pc = "context"]]
    /\ UNCHANGED <<env, disk, outputs, summary, phase, validator, fixer,
                 cache, transformer, generator, reporter, cleanup>>

\* PipelineFactory.create_pipeline: the executor is constructed (and reads
\* current_dataset) before the factory stores the dataset name
CreatePipeline(d) ==
    /\ task[d].pc = "context"
    /\ task' = [task EXCEPT ![d] =
          [@ EXCEPT !.pc = "created",
                    !.dataset_name = get_config("current_dataset"),
                    !.steps = create_pipeline_steps(get_config("validate_after_fixing")),
                    !.validation_count = 0]]
    /\ config' = set_current_dataset(d)
    /\ UNCHANGED <<env, disk, outputs, summary, phase, validator, fixer,
                 cache, transformer, generator, reporter, cleanup>>


(* --------------------------- PipelineExecutor -------------------------- *)
\* execute, lines 598-604: load the input file of dataset d
Load(d) ==
    /\ task[d].pc = "created"
    /\ \E loaded \in {"ok", "empty"} :
         task' = [task EXCEPT ![d] =
            IF loaded = "empty"
            THEN Returned(@, d, Triple(FALSE, NoneTable, NoneResult))
            ELSE [@ EXCEPT !.pc = "run", !.idx = 1, !.df = Table(d, 0)]]
    /\ UNCHANGED <<config, env, disk, outputs, summary, phase, validator, fixer,
                 cache, transformer, generator, reporter, cleanup>>

LogEntry(name, how) == [step |-> name, how |-> how]

\* line 613: the lookup returned a table
CacheHit(value) == value # NoneTable

\* lines 624-625: a validation step's stored results replace the captured ones
CaptureValidation(name, step_results, last) ==
    IF IsValidationStep(name) THEN step_results ELSE last

\* an executor that goes on with an empty table
StepReturnedEmpty_ignored(df) == FALSE

\* line 630: the table after the step is empty
StepReturnedEmpty(df) == IsEmpty(df)

\* line 632
EmptyAbortReturn == Bare(FALSE)

\* an execute without the except branch
OnException_propagates(final_df, last) == Escaped

\* lines 646-649: the except branch of execute
OnException(final_df, last) == Triple(FALSE, final_df, last)

\* lines 635-637: the checkpoint save's result is dropped
CheckpointFailed(before, checkpoint_ok) ==
    before \/ (get_config("checkpointing") /\ ~checkpoint_ok)

\* the body of the for loop at the step the executor of dataset d is at, for
\* the step's outcome, the validator's status and the checkpoint save's
\* result when these are consulted: [task, disk]
StepBody(t, d, outcome, status, checkpoint_ok) ==
    LET name == t.steps[t.idx]
        enabled == get_config("enable_caching")
        got == get_from_cache(enabled, t.memory, disk, <<t.dataset_name>>, <<name>>)
        hit == CacheHit(got.value)
        raised == ~hit /\ outcome = "raise"
        df1 == IF hit THEN got.value ELSE StepExecute(name, outcome, t.df)
        ran == ~hit /\ IsValidationStep(name) /\ ~IsEmpty(t.df)
        count1 == IF ran THEN t.validation_count + 1 ELSE t.validation_count
        \* the step object's last_validation_results: None until it executes
        step_results == IF ran THEN ValidationResult(status, count1, name) ELSE NoneResult
        saved == IF hit THEN [memory |-> got.memory, disk |-> disk]
                 ELSE save_to_cache(enabled, env.cache_writable, got.memory, disk,
                                    df1, <<t.dataset_name>>, <<name>>)
        t1 == [t EXCEPT !.df = df1, !.memory = saved.memory,
                        !.validation_count = count1,
                        !.last_validation_results =
                            CaptureValidation(name, step_results, @),
                        !.log = Append(@, LogEntry(name, IF hit THEN "cached" ELSE "executed"))]
    IN
    IF raised
    THEN \* final_df is still None in the except branch
         [task |-> Returned([t EXCEPT !.memory = got.memory,
                                      !.log = Append(@, LogEntry(name, "raised"))],
                            d, OnException(NoneTable, t.last_validation_results)),
          disk |-> disk]
    ELSE IF StepReturnedEmpty(df1)
    THEN [task |-> Returned(t1, d, EmptyAbortReturn), disk |-> saved.disk]
    ELSE [task |-> [t1 EXCEPT !.idx = @ + 1,
                              !.pc = IF t.idx = Len(t.steps) THEN "save" ELSE "run",
                              !.checkpoint_failed = CheckpointFailed(@, checkpoint_ok)],
          disk |-> saved.disk]

\* execute, lines 607-637: one iteration of the loop over the steps
Step(d) ==
    /\ task[d].pc = "run"
    /\ LET name == task[d].steps[task[d].idx] IN
       \E outcome \in StepOutcomes(name),
          status \in (IF IsValidationStep(name) THEN ValidationStatuses ELSE {"none"}),
          checkpoint_ok \in (IF get_config("checkpointing") THEN BOOLEAN ELSE {TRUE}) :
         LET r == StepBody(task[d], d, outcome, status, checkpoint_ok) IN
         /\ task' = [task EXCEPT ![d] = r.task]
         /\ disk' = r.disk
    /\ UNCHANGED <<config, env, outputs, summary, phase, validator, fixer,
                 cache, transformer, generator, reporter, cleanup>>

\* an execute that reports success whatever the saver returned
SaveBody_ignores_saver(t, d, saved_ok) ==
    Returned([t EXCEPT !.saved = IF saved_ok THEN "ok" ELSE "failed"],
             d, Triple(TRUE, t.df, t.last_validation_results))

\* execute, lines 639-644: save the final table and return
SaveBody(t, d, saved_ok) ==
    Returned([t EXCEPT !.saved = IF saved_ok THEN "ok" ELSE "failed"],
             d, Triple(saved_ok, t.df, t.last_validation_results))

Save(d) ==
    /\ task[d].pc = "save"
    /\ \E saved_ok \in BOOLEAN :
         /\ task' = [task EXCEPT ![d] = SaveBody(@, d, saved_ok)]
         /\ outputs' = IF saved_ok THEN [outputs EXCEPT ![d] = task[d].df] ELSE outputs
    /\ UNCHANGED <<config, env, disk, summary, phase, validator, fixer,
                 cache, transformer, generator, reporter, cleanup>>

(* ------------------ OrchestrationService.process_all ------------------- *)
SummaryEntry(d, status) == [dataset |-> d, status |-> status]

\* the result of dataset d is appended to the summary (as_completed in the
\* pool, the loop body in sequential mode)
Collect(d) ==
    /\ task[d].pc = "done"
    /\ summary' = Append(summary, SummaryEntry(d, task[d].result.status))
    /\ task' = [task EXCEPT ![d] = [@ EXCEPT !.pc = "collected", !.result.dataset = d]]
    /\ UNCHANGED <<config, env, disk, outputs, phase, validator, fixer,
                 cache, transformer, generator, reporter, cleanup>>

\* all tasks are collected: the marker is reset and process_all returns
Finish ==
    /\ phase = "processing"
    /\ \A d \in Datasets : task[d].pc = "collected"
    /\ phase' = "done"
    /\ config' = set_current_dataset(SystemContext)
    /\ UNCHANGED <<env, task, disk, outputs, summary, validator, fixer,
                 cache, transformer, generator, reporter, cleanup>>

Next ==
    \/ \E d \in Datasets : Start(d)
    \/ \E d \in Datasets : CreatePipeline(d)
    \/ \E d \in Datasets : Load(d)
    \/ \E d \in Datasets : Step(d)
    \/ \E d \in Datasets : Save(d)
    \/ \E d \in Datasets : Collect(d)
    \/ Finish

Spec == Init /\ [][Next]_vars

\* the runs with parallel_processing off
InitSequential == Init /\ ~config.parallel_processing

SpecSequential == InitSequential /\ [][Next]_vars


(* ======================================================================= *)
(*                               properties                                *)
(* ======================================================================= *)
LastOf(seq) == seq[Len(seq)]

ExecuteReturned(t) == t.ret # NoReturn

ExecutorBuilt(t) == t.pc \in {"created", "run", "save"} \/ ExecuteReturned(t)

FixedOrder ==
    <<"DataCleaning", "Transformation", "DataValidation_Pre", "DataFixer",
      "DataValidation_Post", "FinalCleanup">>

ExpectedSteps ==
    IF config.validate_after_fixing THEN FixedOrder
    ELSE <<"DataCleaning", "Transformation", "DataValidation_Pre", "DataFixer",
           "FinalCleanup">>

\* C1: every executor built by create_pipeline holds the steps DataCleaning,
\* Transformation, DataValidation_Pre, DataFixer, DataValidation_Post,
\* FinalCleanup in this order, DataValidation_Post being present exactly when
\* validate_after_fixing is on; the steps it has gone through are a prefix of
\* that list, and the step it is at is the one right after the last finished.
C1_FixedStepOrder ==
    \A d \in Datasets :
        LET t == task[d] IN
        ExecutorBuilt(t) =>
            /\ t.steps = ExpectedSteps
            /\ ("DataValidation_Post" \in {t.steps[i] : i \in DOMAIN t.steps}
                    <=> config.validate_after_fixing)
            /\ Len(t.log) <= Len(t.steps)
            /\ \A i \in DOMAIN t.log : t.log[i].step = t.steps[i]
            /\ (t.pc = "run" => t.idx = Len(t.log) + 1)
            /\ (t.pc = "save" => Len(t.log) = Len(t.steps))

\* a run went through all six steps, executing each, and was saved
C1_Witness ==
    \E d \in Datasets :
        /\ task[d].ret.success
        /\ Len(task[d].log) = 6
        /\ \A i \in DOMAIN task[d].log : task[d].log[i].how = "executed"

\* what a lookup of the executor's key finds in the two tiers
Lookup(t, name) ==
    LET key == <<t.dataset_name, name>> IN
    IF ~config.enable_caching THEN NoneTable
    ELSE IF key \in DOMAIN t.memory THEN t.memory[key]
    ELSE IF key \in DOMAIN disk /\ disk[key].kind = "table" THEN disk[key]
    ELSE NoneTable

\* the loop iteration of dataset d's executor, as a step of the system
Iterates(d) == task[d].pc = "run" /\ task'[d] # task[d]

\* C2 (as stated): in every loop iteration the step executes exactly when the
\* lookup of (dataset, step.name) misses; on a hit the cached table is the
\* table carried to the next step; on a miss, when the loop goes on, the
\* step's result is in the cache under (dataset, step.name).
C2_CacheDecidesExecution_AsStated ==
    [][\A d \in Datasets :
        Iterates(d) =>
            LET t == task[d]
                name == t.steps[t.idx]
                key == <<t.dataset_name, name>>
                cached == Lookup(t, name)
                entry == LastOf(task'[d].log)
            IN  /\ entry.step = name
                /\ (entry.how \in {"executed", "raised"} <=> cached = NoneTable)
                /\ (cached # NoneTable => task'[d].df = cached)
                /\ (cached = NoneTable /\ task'[d].pc \in {"run", "save"}
                        => \/ key \in DOMAIN task'[d].memory
                              /\ task'[d].memory[key] = task'[d].df
                           \/ key \in DOMAIN disk' /\ disk'[key] = task'[d].df)
    ]_vars

\* C2 (amended): the same, the write being claimed when caching is enabled,
\* into the executor's memory tier.
C2_CacheDecidesExecution ==
    [][\A d \in Datasets :
        Iterates(d) =>
            LET t == task[d]
                name == t.steps[t.idx]
                key == <<t.dataset_name, name>>
                cached == Lookup(t, name)
                entry == LastOf(task'[d].log)
            IN  /\ entry.step = name
                /\ (entry.how \in {"executed", "raised"} <=> cached = NoneTable)
                /\ (cached # NoneTable => task'[d].df = cached)
                /\ (cached = NoneTable /\ task'[d].pc \in {"run", "save"}
                        /\ config.enable_caching
                        => /\ key \in DOMAIN task'[d].memory
                           /\ task'[d].memory[key] = task'[d].df)
    ]_vars

\* one executor was served from the cache and another executed a step and
\* holds its result in its memory tier
C2_Witness ==
    \E d, e \in Datasets :
        /\ config.enable_caching
        /\ Len(task[d].log) > 0 /\ LastOf(task[d].log).how = "cached"
        /\ task[d].df = StaleTier(task[d].dataset_name)[<<task[d].dataset_name, LastOf(task[d].log).step>>]
        /\ Len(task[e].log) > 0 /\ LastOf(task[e].log).how = "executed"
        /\ task[e].pc \in {"run", "save"}
        /\ <<task[e].dataset_name, LastOf(task[e].log).step>> \in DOMAIN task[e].memory
        /\ task[e].memory[<<task[e].dataset_name, LastOf(task[e].log).step>>] = task[e].df


SummaryOf(d) == {i \in DOMAIN summary : summary[i].dataset = d}

\* the step of the system in which dataset d's table becomes empty
BecomesEmpty(d) == ~IsEmpty(task[d].df) /\ IsEmpty(task'[d].df)

\* C3: once the table of dataset d is empty after a step, execute has returned
\* with that step as the last one gone through, nothing was saved for d, d is
\* reported with status error, and the step that emptied the table changed
\* nothing of the other datasets' tasks, files or summary entries.
C3_EmptyTableAborts ==
    /\ [](\A d \in Datasets :
            LET t == task[d] IN
            IsEmpty(t.df) =>
                /\ t.pc \in {"done", "collected"}
                /\ ExecuteReturned(t)
                /\ Len(t.log) = t.idx
                /\ LastOf(t.log).how = "executed"
                /\ t.saved = "none"
                /\ outputs[d] = NoneTable
                /\ t.result.status = "error"
                /\ \A i \in SummaryOf(d) : summary[i].status = "error")
    /\ [][\A d \in Datasets :
            BecomesEmpty(d) =>
                /\ \A e \in Datasets \ {d} : task'[e] = task[e]
                /\ outputs' = outputs
                /\ summary' = summary
                /\ disk' = disk
         ]_vars

\* a dataset was aborted on an empty table and reported as an error, and
\* another dataset of the same run succeeded
C3_Witness ==
    \E d, e \in Datasets :
        /\ IsEmpty(task[d].df)
        /\ task[d].pc = "collected"
        /\ \E i \in SummaryOf(d) : summary[i].status = "error"
        /\ task[e].pc = "collected"
        /\ task[e].result.status = "success"
        /\ outputs[e] = task[e].df

\* C4: whenever execute has returned, what it returned is a triple
\* (success, final_table, last_validation_result).
C4_AlwaysATriple ==
    \A d \in Datasets : ExecuteReturned(task[d]) => task[d].ret.arity = 3


Raised(t) == Len(t.log) > 0 /\ LastOf(t.log).how = "raised"

\* C5: execute is never left by an exception: when a step raised, or the
\* saver failed, execute has returned a triple with success = false.
C5_NoExceptionEscapes ==
    \A d \in Datasets :
        LET t == task[d] IN
        /\ t.ret # Escaped
        /\ (Raised(t) \/ t.saved = "failed") =>
              /\ ExecuteReturned(t)
              /\ t.ret.arity = 3
              /\ ~t.ret.success
              /\ t.pc \in {"done", "collected"}

\* a step raised, and execute returned (false, None, captured results)
C5_Witness ==
    \E d \in Datasets :
        /\ Raised(task[d])
        /\ task[d].ret = Triple(FALSE, NoneTable, task[d].last_validation_results)

\* C6: when execute has returned, success is true exactly when the table is
\* a non-empty table (loaded non-empty, emptied by no step) and the saver
\* was called for it and returned true; a load that yields an empty table
\* returns (false, None, None) with no step gone through, nothing cached and
\* nothing saved; none of this depends on the checkpoint saves.
C6_SuccessIffLoadedKeptSaved ==
    /\ [](\A d \in Datasets :
            LET t == task[d] IN
            ExecuteReturned(t) =>
                /\ t.ret.success <=> (t.df.kind = "table" /\ t.saved = "ok")
                /\ t.ret.success =>
                      /\ t.ret.arity = 3
                      /\ t.ret.table = t.df
                      /\ outputs[d] = t.df
                      /\ Len(t.log) = Len(t.steps)
                /\ t.df = NoneTable =>
                      /\ t.ret = Triple(FALSE, NoneTable, NoneResult)
                      /\ t.log = <<>>
                      /\ t.memory = EmptyTier
                      /\ t.saved = "none"
                      /\ outputs[d] = NoneTable)
    /\ [][\A d \in Datasets :
            (task[d].pc = "created" /\ task'[d].pc = "done") =>
                (disk' = disk /\ outputs' = outputs)
         ]_vars

\* a run succeeded although one of its checkpoint saves failed
C6_Witness ==
    \E d \in Datasets :
        /\ task[d].ret.success
        /\ task[d].checkpoint_failed
        /\ outputs[d] = task[d].df

LastValidationStep ==
    IF config.validate_after_fixing THEN "DataValidation_Post" ELSE "DataValidation_Pre"

\* C7: when execute went through all steps, the validation result it returns
\* is not None and is the one of the last validation step of the list.
C7_LastValidationResultReturned ==
    \A d \in Datasets :
        LET t == task[d] IN
        (ExecuteReturned(t) /\ t.saved # "none") =>
            /\ t.ret.validation # NoneResult
            /\ t.ret.validation.by = LastValidationStep

\* C8: in parallel mode, with caching on, the executor built for dataset D
\* has made every cache lookup and every cache write with D in the key, and
\* the table it carries was loaded from D's file.
C8_CacheKeyedByOwnDataset ==
    \A d \in Datasets :
        LET t == task[d] IN
        (Parallel /\ config.enable_caching /\ Len(t.log) > 0) =>
            /\ t.dataset_name = d
            /\ \A k \in DOMAIN t.memory : k[1] = d
            /\ (t.df.kind = "table" => t.df.owner = d)

\* the steps whose strategies pick their dataset-specific rules by reading
\* current_dataset from the shared configuration while they execute: the
\* fixer pipeline (consistency branch, protected columns), the validation
\* pipeline (domain-specific branch) and FinalCleanup (SQL compatibility)
GatedSteps == {"DataFixer", "DataValidation_Pre", "DataValidation_Post", "FinalCleanup"}

\* the loop iteration of d's executor executed step "name" (no cache hit)
Executes(d, name) ==
    /\ task[d].pc = "run"
    /\ task[d].steps[task[d].idx] = name
    /\ Len(task'[d].log) = Len(task[d].log) + 1
    /\ LastOf(task'[d].log) = LogEntry(name, "executed")

\* C25: in parallel mode, whenever a step of dataset D's pipeline executes a
\* dataset-gated rule on a table that is not empty, the dataset name the
\* rule reads, current_dataset, is D.
C25_GatedRulesUseOwnDataset ==
    [][\A d \in Datasets : \A name \in GatedSteps :
          (Parallel /\ Executes(d, name) /\ task[d].df.kind = "table")
              => get_config("current_dataset") = d]_vars

Succeeded(t) == t.ret.arity = 3 /\ t.ret.success

\* C9: the summary holds at most one entry per dataset, an entry exactly for
\* the datasets whose task is collected, with status success when execute
\* returned success and error otherwise; when process_all has returned
\* there is exactly one entry per registered dataset; and until then some
\* step of the run is possible, whatever has failed so far.
C9_OneSummaryEntryPerDataset ==
    /\ \A d \in Datasets :
          /\ Cardinality(SummaryOf(d)) = IF task[d].pc = "collected" THEN 1 ELSE 0
          /\ \A i \in SummaryOf(d) :
                summary[i].status = IF Succeeded(task[d]) THEN "success" ELSE "error"
    /\ phase = "done" => Len(summary) = NumDatasets
    /\ (phase = "done" \/ ENABLED Next)

\* a parallel run has returned with one dataset failed by an exception and
\* another one succeeded after it
C9_Witness ==
    /\ phase = "done"
    /\ Parallel
    /\ \E d, e \in Datasets :
          /\ Raised(task[d])
          /\ Succeeded(task[e])
          /\ \E i \in SummaryOf(d), j \in SummaryOf(e) :
                /\ i < j
                /\ summary[i].status = "error"
                /\ summary[j].status = "success"

\* C10: an executed validation step hands on the table it received, whatever
\* status its result has, and the loop goes on with the next step, which is
\* DataFixer after the pre-fix validation.
C10_ValidationNeverStopsThePipeline ==
    [][\A d \in Datasets :
        LET t == task[d]
            name == t.steps[t.idx]
        IN
        (Iterates(d) /\ IsValidationStep(name) /\ LastOf(task'[d].log).how = "executed") =>
            /\ task'[d].last_validation_results.status \in ValidationStatuses
            /\ task'[d].df = t.df
            /\ task'[d].pc \in {"run", "save"}
            /\ task'[d].idx = t.idx + 1
            /\ task'[d].steps[task'[d].idx] =
                  IF name = "DataValidation_Pre" THEN "DataFixer" ELSE "FinalCleanup"
    ]_vars

\* the pre-fix validation failed, and DataFixer and FinalCleanup were executed
\* after it on the table it had received
C10_Witness ==
    \E d \in Datasets :
        LET t == task[d] IN
        /\ Succeeded(t)
        /\ t.ret.validation = ValidationResult("failed", 1, "DataValidation_Pre")
        /\ Len(t.log) = 5
        /\ \A i \in DOMAIN t.log : t.log[i].how = "executed"
        /\ t.df = Table(d, 4)

(* C12: within one dataset's run the pre-fix validation result carries
   validation_pass = 1 and the post-fix validation result carries
   validation_pass = 2; the counter starts again for the next dataset. *)
C12_ValidationPassCounts ==
    \A d \in Datasets :
        LET r == task[d].last_validation_results IN
        /\ (r.by = "DataValidation_Pre" => r.validation_pass = 1)
        /\ (r.by = "DataValidation_Post" => r.validation_pass = 2)

(* ======================================================================= *)
(* validators.py: ValidationPipeline and its strategies, called directly   *)
(* ======================================================================= *)
\* the passes one ValidationPipeline object is followed through
MaxPasses == 2
\* the largest number of warnings one strategy reports
MaxWarnings == 50

\* Configuration.sql_schemas: dataset -> column -> SQL type (two columns of
\* each fallback schema)
sql_schemas ==
    [Loan   |-> [CustomerID |-> "INT", CreditScore |-> "INT"],
     Fraud  |-> [TransactionID |-> "INT", IsUsedChip |-> "INT"],
     Market |-> [MarketID |-> "INT", OpenValue |-> "DECIMAL"],
     Macro  |-> [MacroID |-> "INT", GDP |-> "DECIMAL"]]

EmptySchema == [c \in {} |-> ""]

get_schema_for_dataset(dataset_name) ==
    IF dataset_name \in DOMAIN sql_schemas THEN sql_schemas[dataset_name] ELSE EmptySchema

\* SchemaValidationStrategy._get_required_columns: the dataset's schema is
\* looked up, and then the dataset's name is looked up in it once more
get_required_columns(dataset_name) ==
    LET schema == get_schema_for_dataset(dataset_name) IN
    IF dataset_name # "" /\ dataset_name \in DOMAIN schema
    THEN DOMAIN schema[dataset_name]
    ELSE {}

\* SchemaValidationStrategy._get_column_data_types
get_column_data_types(dataset_name) ==
    LET schema == get_schema_for_dataset(dataset_name) IN
    IF dataset_name # "" /\ dataset_name \in DOMAIN schema
    THEN schema[dataset_name]
    ELSE EmptySchema

\* a table as the validators see it: empty or not, its columns, and the
\* columns whose dtype does not fit SQL type of the same name
ValidatedTable(e, cols, bad) == [empty |-> e, columns |-> cols, mistyped |-> bad]

Issue(type, severity) == [type |-> type, severity |-> severity]

Repeat(x, n) == [i \in 1..n |-> x]

Count(issues, severity) ==
    Cardinality({i \in DOMAIN issues : issues[i].severity = severity})

\* SchemaValidationStrategy._validate_impl: the issues it adds
SchemaValidation_validate_impl(df, dataset_name) ==
    IF df.empty
    THEN <<Issue("empty_dataset", "critical")>>
    ELSE LET required_columns == get_required_columns(dataset_name)
             missing_columns == required_columns \ df.columns
             expected_types == get_column_data_types(dataset_name)
             mismatches == {col \in DOMAIN expected_types :
                               col \in df.columns /\ col \in df.mistyped}
         IN (IF missing_columns # {}
             THEN <<Issue("missing_columns", "critical")>>
             ELSE <<>>)
            \o Repeat(Issue("type_mismatch", "warning"), Cardinality(mismatches))

\* the other two strategies add warnings only; how many depends on the data
OtherStrategy_validate_impl(kind, df, warnings) ==
    IF df.empty
    THEN <<Issue("empty_dataset", "critical")>>
    ELSE Repeat(Issue(kind, "warning"), warnings)

\* ValidationStrategy.validate: the status follows from the issues; an
\* exception of the implementation becomes an error result
validate(issues, raised) ==
    IF raised
    THEN [status |-> "error", issues |-> <<Issue("exception", "critical")>>]
    ELSE [status |-> IF Count(issues, "critical") > 0 THEN "failed"
                     ELSE IF Count(issues, "warning") > 0 THEN "warning"
                     ELSE "passed",
          issues |-> issues]

StrategyOutcomes ==
    [raised : {FALSE}, warnings : {0, MaxWarnings}] \cup
    {[raised |-> TRUE, warnings |-> 0]}

Max(a, b) == IF a >= b THEN a ELSE b

\* lines 1174-1177: one step's status folded into the pipeline's
FoldStatus(status, step_status) ==
    IF step_status = "failed" THEN "failed"
    ELSE IF step_status = "warning" /\ status # "failed" THEN "warning"
    ELSE status

\* ValidationPipeline.process for the counter's value before the call, the
\* table, the current dataset and the outcomes of the data-quality and the
\* domain strategy
process(validation_count, df, dataset_name, quality, domain) ==
    LET pass == validation_count + 1 IN
    IF df.empty
    THEN [status |-> "failed",
          issues |-> <<Issue("empty_dataframe", "critical")>>,
          validation_pass |-> pass,
          dataset_quality_score |-> 100]
    ELSE LET r1 == validate(SchemaValidation_validate_impl(df, dataset_name), FALSE)
             r2 == validate(OtherStrategy_validate_impl("data_quality", df, quality.warnings),
                            quality.raised)
             r3 == validate(OtherStrategy_validate_impl("domain", df, domain.warnings),
                            domain.raised)
             all_issues == r1.issues \o r2.issues \o r3.issues
             critical_count == Count(all_issues, "critical")
             warning_count == Count(all_issues, "warning")
             penalty == (critical_count * 10) + (warning_count * 2)
         IN [status |-> FoldStatus(FoldStatus(FoldStatus("passed", r1.status),
                                              r2.status), r3.status),
             issues |-> all_issues,
             validation_pass |-> pass,
             dataset_quality_score |->
                 IF all_issues # <<>> THEN Max(0, 100 - penalty) ELSE 100]

NoValidatedTable == ValidatedTable(TRUE, {}, {})
NoResults == [status |-> "none", issues |-> <<>>, validation_pass |-> 0,
              dataset_quality_score |-> 0]

\* the tables handed to the validator: empty, or with rows and some of the
\* columns of the schemas, CreditScore of the schema's dtype or of another
ValidatedTables ==
    LET all == UNION {DOMAIN sql_schemas[d] : d \in Datasets} IN
    {ValidatedTable(TRUE, {}, {})} \cup
    {ValidatedTable(FALSE, cols, bad) :
        cols \in (SUBSET all) \ {{}}, bad \in SUBSET ({"CreditScore"} \cap all)}

InitValidation ==
    /\ config \in [parallel_processing : {FALSE}, max_workers : {1},
                   enable_caching : {FALSE}, checkpointing : {FALSE},
                   validate_after_fixing : {TRUE},
                   current_dataset : Datasets \cup {SystemContext}]
    /\ env = [cache_writable |-> TRUE]
    /\ task = [d \in Datasets |-> InitTask]
    /\ disk = EmptyTier
    /\ outputs = [d \in Datasets |-> NoneTable]
    /\ summary = <<>>
    /\ phase = "idle"
    /\ validator = [validation_count |-> 0, pc |-> "ready",
                    df |-> NoValidatedTable, results |-> NoResults]
    /\ fixer = IdleFixer
    /\ cache = Idle
    /\ transformer = Idle
    /\ generator = Idle
    /\ reporter = Idle
    /\ cleanup = Idle

\* ValidationPipeline.process(df)
Validate ==
    /\ validator.pc = "ready"
    /\ validator.validation_count < MaxPasses
    /\ \E df \in ValidatedTables, quality \in StrategyOutcomes, domain \in StrategyOutcomes :
         validator' = [validator EXCEPT
            !.validation_count = @ + 1,
            !.df = df,
            !.results = process(validator.validation_count, df,
                                get_config("current_dataset"), quality, domain)]
    /\ UNCHANGED <<config, env, task, disk, outputs, summary, phase, fixer,
                 cache, transformer, generator, reporter, cleanup>>

\* ValidationPipeline.reset_validation_count()
ResetValidationCount ==
    /\ validator.pc = "ready"
    /\ validator.validation_count > 0
    /\ validator' = [validator EXCEPT !.validation_count = 0]
    /\ UNCHANGED <<config, env, task, disk, outputs, summary, phase, fixer,
                 cache, transformer, generator, reporter, cleanup>>

NextValidation == Validate \/ ResetValidationCount

SpecValidation == InitValidation /\ [][NextValidation]_vars

(* C11: every result of ValidationPipeline.process has
   dataset_quality_score = max(0, 100 - 10*c - 2*w) for the numbers c and w
   of critical and warning issues in its issues list, hence in [0,100]. *)
C11_QualityScoreFormula ==
    validator.results # NoResults =>
        LET r == validator.results
            c == Count(r.issues, "critical")
            w == Count(r.issues, "warning")
        IN /\ r.dataset_quality_score = Max(0, 100 - 10 * c - 2 * w)
           /\ r.dataset_quality_score \in 0..100

(* C13: SchemaValidation reports a critical missing_columns issue, and the
   result is failed, whenever the validated table lacks a column that is a
   key of the current dataset's target schema. *)
C13_MissingColumnsReported ==
    LET d == get_config("current_dataset")
        r == validator.results
    IN (/\ r # NoResults
        /\ ~validator.df.empty
        /\ d \in DOMAIN sql_schemas
        /\ DOMAIN sql_schemas[d] \ validator.df.columns # {})
       => /\ \E i \in DOMAIN r.issues :
                r.issues[i] = Issue("missing_columns", "critical")
          /\ r.status = "failed"

(* C30: the status of every result of ValidationPipeline.process agrees
   with its issues: it is passed only if there is no critical and no warning
   issue, and it is failed or error whenever there is a critical issue, also
   when a strategy ended with an internal error. *)
C30_StatusAgreesWithIssues ==
    validator.results # NoResults =>
        /\ validator.results.status = "passed" =>
              /\ Count(validator.results.issues, "critical") = 0
              /\ Count(validator.results.issues, "warning") = 0
        /\ Count(validator.results.issues, "critical") > 0 =>
              validator.results.status \in {"failed", "error"}

(* ======================================================================= *)
(* fixers.py: the fixer strategies and the FixerPipeline, called directly  *)
(* ======================================================================= *)
(* A table is a function from its column names to the columns, each a
   sequence of integers; the table without columns is the empty table. The
   tables of this model are numeric and have no missing cell, and they
   carry only the columns of FrameColumns: a handler whose guard asks for
   another column does not act on them. Quantiles are pandas' linear
   interpolation in integer arithmetic, exact for the tables drawn here. *)
\* the rows of a table
NumRows == 5
\* configuration.py:217
OutlierThreshold == 3
\* the calls one strategy or pipeline object is followed through
MaxCalls == 2

Rows == 1..NumRows

EmptyFrame == [c \in {} |-> <<>>]

FrameIsEmpty(df) == DOMAIN df = {}

HasAll(df, cols) == cols \subseteq DOMAIN df

Abs(x) == IF x < 0 THEN -x ELSE x

Min(a, b) == IF a <= b THEN a ELSE b

\* the rows a column differs in from another
Changed(before, after) == {i \in DOMAIN before : before[i] # after[i]}

\* a column and the number of fixes logged for it
Fixed(col, n) == [col |-> col, n |-> n]

\* df.loc[rows, col] = value, logged as len(rows) fixes
SetWhere(r, rows, value) ==
    Fixed([i \in DOMAIN r.col |-> IF i \in rows THEN value ELSE r.col[i]],
          r.n + Cardinality(rows))

\* df.loc[rows, col] = df[col].abs(), logged as len(rows) fixes
AbsWhere(r, rows) ==
    Fixed([i \in DOMAIN r.col |-> IF i \in rows THEN Abs(r.col[i]) ELSE r.col[i]],
          r.n + Cardinality(rows))

\* the k-th smallest value of a column
Kth(s, k) ==
    CHOOSE v \in {s[i] : i \in DOMAIN s} :
        /\ Cardinality({i \in DOMAIN s : s[i] < v}) < k
        /\ Cardinality({i \in DOMAIN s : s[i] <= v}) >= k

Lerp(a, b, rem, den) == a + (rem * (b - a)) \div den

Interpolated(s, lo, rem, den) ==
    IF rem = 0 THEN Kth(s, lo + 1)
    ELSE Lerp(Kth(s, lo + 1), Kth(s, lo + 2), rem, den)

\* Series.quantile(num/den), linear interpolation
Quantile(s, num, den) ==
    Interpolated(s, ((Len(s) - 1) * num) \div den, ((Len(s) - 1) * num) % den, den)

Median(s) == Quantile(s, 1, 2)

NUnique(s) == Cardinality({s[i] : i \in DOMAIN s})

RECURSIVE Sum(_, _)
Sum(f, S) ==
    IF S = {} THEN 0
    ELSE f[CHOOSE y \in S : TRUE] + Sum(f, S \ {CHOOSE y \in S : TRUE})

\* a table and the number of fixes from the per-column results
Collected(per) ==
    [df |-> [c \in DOMAIN per |-> per[c].col],
     n |-> Sum([c \in DOMAIN per |-> per[c].n], DOMAIN per)]

\* n more fixes logged
Plus(r, n) == [df |-> r.df, n |-> r.n + n]

Untouched(df) == [df |-> df, n |-> 0]

(* ------------------------ MissingValueFixerStrategy --------------------- *)
\* lines 122-125: no column has a missing value
MissingValueFixer_fix(df) == Untouched(df)

(* -------------------------- OutlierFixerStrategy ------------------------ *)
\* the columns of this model with 'id' (and without 'ratio') in their
\* lower-cased name
IdColumns == {"CustomerID"}

\* the columns of this model whose lower-cased name is one of the default
\* ID columns of _find_groupby_key_cached
GroupKeyColumns == {"CustomerID"}

NoKey == "<none>"

find_groupby_key(df) ==
    IF DOMAIN df \cap GroupKeyColumns = {} THEN NoKey
    ELSE CHOOSE c \in DOMAIN df \cap GroupKeyColumns : TRUE

domain_specific_columns ==
    [Loan   |-> {"Age", "AnnualIncome", "CreditScore", "InterestRate", "LoanAmount",
                 "DebtToIncomeRatio"},
     Fraud  |-> {"TransactionAmount", "DistanceFromHome"},
     Market |-> {"OpenValue", "CloseValue", "HighestValue", "LowestValue", "VIX",
                 "TEDSpread"},
     Macro  |-> {"UnemploymentRate", "GDP", "InflationRate"}]

should_skip_column(col, df, dataset_name) ==
    IF col \in IdColumns \/ NUnique(df[col]) <= 2
    THEN TRUE
    ELSE IF dataset_name \in DOMAIN domain_specific_columns
    THEN col \in domain_specific_columns[dataset_name]
    ELSE FALSE

\* _calculate_bounds_cached: none when the column has no variability
calculate_bounds_cached(q1, q3, threshold) ==
    [none |-> q3 - q1 = 0,
     lower_bound |-> q1 - threshold * (q3 - q1),
     upper_bound |-> q3 + threshold * (q3 - q1)]

calculate_bounds(series, threshold) ==
    calculate_bounds_cached(Quantile(series, 1, 4), Quantile(series, 3, 4), threshold)

fix_outliers_with_bounds(col, lower_bound, upper_bound) ==
    Fixed([i \in DOMAIN col |->
              IF col[i] < lower_bound THEN lower_bound
              ELSE IF col[i] > upper_bound THEN upper_bound
              ELSE col[i]],
          Cardinality({i \in DOMAIN col :
                          col[i] < lower_bound \/ col[i] > upper_bound}))

\* how often the value v is met in the rows of a group, and where first
CountIn(col, members, v) == Cardinality({i \in members : col[i] = v})

FirstIn(col, members, v) ==
    CHOOSE i \in members : col[i] = v /\ \A j \in members : col[j] = v => i <= j

\* value_counts().index[0] of the rows of one group: the most frequent
\* value, the one met first among equally frequent ones
MostCommon(col, members) ==
    CHOOSE v \in {col[i] : i \in members} :
        \A u \in {col[i] : i \in members} :
            \/ CountIn(col, members, v) > CountIn(col, members, u)
            \/ /\ CountIn(col, members, v) = CountIn(col, members, u)
               /\ FirstIn(col, members, v) <= FirstIn(col, members, u)

\* the group has at least 3 rows and its most common value fills all but
\* at most 2 of them
HasConsensus(col, members) ==
    /\ Cardinality(members) >= 3
    /\ CountIn(col, members, MostCommon(col, members)) >= Cardinality(members) - 2

\* the rows with the same key as row i
GroupOf(key, i) == {j \in DOMAIN key : key[j] = key[i]}

\* the column after the change, with the changed rows as the fixes
Replaced(before, after) == Fixed(after, Cardinality(Changed(before, after)))

fix_group_outliers(df, col, groupby_key) ==
    Replaced(df[col],
             [i \in DOMAIN df[col] |->
                 IF HasConsensus(df[col], GroupOf(df[groupby_key], i))
                 THEN MostCommon(df[col], GroupOf(df[groupby_key], i))
                 ELSE df[col][i]])

CappedTo(col, bounds) ==
    IF bounds.none THEN Fixed(col, 0)
    ELSE fix_outliers_with_bounds(col, bounds.lower_bound, bounds.upper_bound)

fix_global_outliers(col, threshold) ==
    CappedTo(col, calculate_bounds(col, threshold))

\* the fixes of the second step added to those of the first
After(g, s) == Fixed(s.col, g.n + s.n)

\* Step 2 on what Step 1 left
GlobalAfterGroup(g, threshold) == After(g, fix_global_outliers(g.col, threshold))

\* what _fix does to one column
OutlierFixer_column(df, col, dataset_name, threshold) ==
    IF should_skip_column(col, df, dataset_name)
    THEN Fixed(df[col], 0)
    ELSE GlobalAfterGroup(IF find_groupby_key(df) # NoKey
                          THEN fix_group_outliers(df, col, find_groupby_key(df))
                          ELSE Fixed(df[col], 0),
                          threshold)

OutlierFixer_fix(df, dataset_name, threshold) ==
    Collected([c \in DOMAIN df |-> OutlierFixer_column(df, c, dataset_name, threshold)])

(* ------------------------ DomainLoanFixerStrategy ----------------------- *)
NegativeAges(r) == SetWhere(r, {i \in DOMAIN r.col : r.col[i] < 0}, Median(r.col))

HighAges(r) == SetWhere(r, {i \in DOMAIN r.col : r.col[i] > 100}, 100)

LowAges(r) == SetWhere(r, {i \in DOMAIN r.col : r.col[i] > 0 /\ r.col[i] < 18}, 18)

fix_age_values(age) == LowAges(HighAges(NegativeAges(Fixed(age, 0))))

NegativeRates(r) == AbsWhere(r, {i \in DOMAIN r.col : r.col[i] < 0})

HighRates(r) == SetWhere(r, {i \in DOMAIN r.col : r.col[i] > 100}, 100)

fix_interest_rate(rate) == HighRates(NegativeRates(Fixed(rate, 0)))

NegativeScores(r) == SetWhere(r, {i \in DOMAIN r.col : r.col[i] < 0}, 300)

LowScores(r) == SetWhere(r, {i \in DOMAIN r.col : r.col[i] > 0 /\ r.col[i] < 300}, 300)

HighScores(r) == SetWhere(r, {i \in DOMAIN r.col : r.col[i] > 850}, 850)

fix_credit_score(score) == HighScores(LowScores(NegativeScores(Fixed(score, 0))))

DomainLoanFixer_fix(df) ==
    Collected([c \in DOMAIN df |->
        CASE c = "Age" -> fix_age_values(df[c])
          [] c = "InterestRate" -> fix_interest_rate(df[c])
          [] c = "CreditScore" -> fix_credit_score(df[c])
          [] OTHER -> Fixed(df[c], 0)])

(* ----------------------- DomainFraudFixerStrategy ----------------------- *)
\* a value that is neither 0 nor 1 becomes 1 if it is at least 0.5, else 0
fix_binary_indicators(col) ==
    Fixed([i \in DOMAIN col |->
              IF col[i] \in {0, 1} THEN col[i] ELSE IF col[i] >= 1 THEN 1 ELSE 0],
          Cardinality({i \in DOMAIN col : col[i] \notin {0, 1}}))

DomainFraudFixer_fix(df) ==
    Collected([c \in DOMAIN df |->
        IF c \in {"IsFraudulent", "IsOnlineTransaction", "IsUsedChip", "IsUsedPIN"}
        THEN fix_binary_indicators(df[c])
        ELSE Fixed(df[c], 0)])

(* ----------------------- DomainMacroFixerStrategy ----------------------- *)
RatioCap(name) ==
    CASE name = "UnemploymentRate" -> 50
      [] name = "InflationRate" -> 100
      [] name \in {"DebtRatio", "DeficitRatio"} -> 200
      [] OTHER -> 100

NegativeRatios(r) == AbsWhere(r, {i \in DOMAIN r.col : r.col[i] < 0})

HighRatios(r, cap) == SetWhere(r, {i \in DOMAIN r.col : r.col[i] > cap}, cap)

\* inflation is left as it is
fix_ratio_values(name, col) ==
    IF name = "InflationRate" THEN Fixed(col, 0)
    ELSE HighRatios(NegativeRatios(Fixed(col, 0)), RatioCap(name))

DomainMacroFixer_fix(df) ==
    Collected([c \in DOMAIN df |->
        IF c \in {"UnemploymentRate", "InflationRate", "DebtRatio", "DeficitRatio"}
        THEN fix_ratio_values(c, df[c])
        ELSE Fixed(df[c], 0)])

(* ----------------------- DomainMarketFixerStrategy ---------------------- *)
PriceColumns == {"OpenValue", "CloseValue", "HighestValue", "LowestValue"}

\* the rows with HighestValue below LowestValue
InvalidHighLow(df) ==
    {i \in DOMAIN df["HighestValue"] : df["HighestValue"][i] < df["LowestValue"][i]}

\* STEP 1: HighestValue and LowestValue are swapped where they are inverted
swap_high_low(df) ==
    [df |-> [c \in DOMAIN df |->
                [i \in DOMAIN df[c] |->
                    IF i \in InvalidHighLow(df) /\ c = "HighestValue"
                    THEN df["LowestValue"][i]
                    ELSE IF i \in InvalidHighLow(df) /\ c = "LowestValue"
                    THEN df["HighestValue"][i]
                    ELSE df[c][i]]],
     n |-> Cardinality(InvalidHighLow(df))]

\* 1.0 * IQR for HighestValue, 1.5 * IQR for the other price columns
PriceMargin(name, iqr) == IF name # "HighestValue" THEN (3 * iqr) \div 2 ELSE iqr

\* the values below the lower bound are raised to it, then the values above
\* the upper bound are lowered to it; the outliers found before are logged
CappedPrices(col, lower_bound, upper_bound) ==
    Fixed([i \in DOMAIN col |->
              IF Max(col[i], lower_bound) > upper_bound THEN upper_bound
              ELSE Max(col[i], lower_bound)],
          Cardinality({i \in DOMAIN col :
                          col[i] < lower_bound \/ col[i] > upper_bound}))

PriceBounds(name, q1, q3) ==
    [lower_bound |-> Max(0, q1 - PriceMargin(name, q3 - q1)),
     upper_bound |-> q3 + PriceMargin(name, q3 - q1)]

CappedToPriceBounds(col, bounds) ==
    CappedPrices(col, bounds.lower_bound, bounds.upper_bound)

\* STEP 2 for one column: capped to its own IQR bounds
cap_price_outliers(name, col) ==
    CappedToPriceBounds(col,
        PriceBounds(name, Quantile(col, 1, 4), Quantile(col, 3, 4)))

cap_prices(s1) ==
    Plus(Collected([c \in DOMAIN s1.df |->
                       IF c \in PriceColumns
                       THEN cap_price_outliers(c, s1.df[c])
                       ELSE Fixed(s1.df[c], 0)]),
         s1.n)

TooHigh(r, high) == Fixed([i \in DOMAIN r.col |-> Min(r.col[i], high[i])],
                          r.n + Cardinality({i \in DOMAIN r.col : r.col[i] > high[i]}))

TooLow(r, low) == Fixed([i \in DOMAIN r.col |-> Max(r.col[i], low[i])],
                        r.n + Cardinality({i \in DOMAIN r.col : r.col[i] < low[i]}))

\* STEP 3 for OpenValue or CloseValue: brought below HighestValue, then
\* above LowestValue
clamp_to_range(col, high, low) == TooLow(TooHigh(Fixed(col, 0), high), low)

clamp_open_close(s2) ==
    Plus(Collected([c \in DOMAIN s2.df |->
                       IF c \in {"OpenValue", "CloseValue"}
                       THEN clamp_to_range(s2.df[c], s2.df["HighestValue"],
                                           s2.df["LowestValue"])
                       ELSE Fixed(s2.df[c], 0)]),
         s2.n)

fix_price_relationships(df) == clamp_open_close(cap_prices(swap_high_low(df)))

fix_negative_prices(col) ==
    AbsWhere(Fixed(col, 0), {i \in DOMAIN col : col[i] < 0})

negative_prices(r1) ==
    Plus(Collected([c \in DOMAIN r1.df |->
                       IF c \in PriceColumns THEN fix_negative_prices(r1.df[c])
                       ELSE Fixed(r1.df[c], 0)]),
         r1.n)

DomainMarketFixer_fix(df) ==
    negative_prices(IF HasAll(df, PriceColumns) THEN fix_price_relationships(df)
                    ELSE Untouched(df))

(* --------------------- DataConsistencyFixerStrategy --------------------- *)
\* a chip or PIN flag of 1 becomes 0 in the rows of online transactions
Offline(online, col) ==
    Replaced(col, [i \in DOMAIN col |->
                      IF online[i] = 1 /\ col[i] = 1 THEN 0 ELSE col[i]])

fix_fraud_indicator_consistency(df) ==
    Collected([c \in DOMAIN df |->
        IF c \in {"IsUsedChip", "IsUsedPIN"}
        THEN Offline(df["IsOnlineTransaction"], df[c])
        ELSE Fixed(df[c], 0)])

fix_fraud_consistency(df) ==
    IF HasAll(df, {"IsFraudulent", "IsOnlineTransaction", "IsUsedChip", "IsUsedPIN"})
    THEN fix_fraud_indicator_consistency(df)
    ELSE Untouched(df)

\* for "Loan" the guards ask for MonthlyPayment or CreditUtilizationRatio,
\* for "Market" for VIX and TEDSpread: columns no table of this model has
DataConsistencyFixer_fix(df, dataset_name) ==
    IF dataset_name = "Fraud" THEN fix_fraud_consistency(df)
    ELSE Untouched(df)

(* ------------------------------ FixerStrategy --------------------------- *)
Strategies ==
    {"MissingValueFixerStrategy", "OutlierFixerStrategy", "DomainLoanFixerStrategy",
     "DomainFraudFixerStrategy", "DomainMarketFixerStrategy",
     "DomainMacroFixerStrategy", "DataConsistencyFixerStrategy"}

\* the strategy's _fix on the table it is handed: the table it leaves and
\* the fixes it logged
StrategyFix(strategy, df, dataset_name) ==
    CASE strategy = "MissingValueFixerStrategy" -> MissingValueFixer_fix(df)
      [] strategy = "OutlierFixerStrategy" ->
            OutlierFixer_fix(df, dataset_name, OutlierThreshold)
      [] strategy = "DomainLoanFixerStrategy" -> DomainLoanFixer_fix(df)
      [] strategy = "DomainFraudFixerStrategy" -> DomainFraudFixer_fix(df)
      [] strategy = "DomainMarketFixerStrategy" -> DomainMarketFixer_fix(df)
      [] strategy = "DomainMacroFixerStrategy" -> DomainMacroFixer_fix(df)
      [] OTHER -> DataConsistencyFixer_fix(df, dataset_name)

\* what fix hands back after _fix worked on a copy: r is what _fix left of
\* the copy, fails tells whether it raised (after its last logged fix);
\* result is the table returned, input the caller's table after the call
FixReturn(df, r, fails) ==
    [result |-> IF fails THEN df ELSE r.df,
     input |-> df,
     fix_count |-> 0 + r.n,
     raised |-> FALSE]

\* the same when _fix worked on the caller's table itself
FixReturn_in_place(df, r, fails) ==
    [result |-> r.df, input |-> r.df, fix_count |-> 0 + r.n, raised |-> FALSE]

\* a fix that hands the caller's table itself to _fix
fix_in_place(strategy, df, dataset_name, fails, fix_count) ==
    IF FrameIsEmpty(df)
    THEN [result |-> df, input |-> df, fix_count |-> 0, raised |-> FALSE]
    ELSE FixReturn_in_place(df, StrategyFix(strategy, df, dataset_name), fails)

\* FixerStrategy.fix: the counter is reset, _fix works on a copy, and the
\* table passed in is what comes back when _fix raises
fix(strategy, df, dataset_name, fails, fix_count) ==
    IF FrameIsEmpty(df)
    THEN [result |-> df, input |-> df, fix_count |-> 0, raised |-> FALSE]
    ELSE FixReturn(df, StrategyFix(strategy, df, dataset_name), fails)

(* ----------------------- the fixing pipeline factories ------------------ *)
\* the dataset types the factories are asked for
DatasetTypes == {"Loan", "Fraud", "Market", "Macro", "loan", "MARKET", "", "Other"}

\* str.lower()
lower(s) ==
    CASE s \in {"Loan", "loan"} -> "loan"
      [] s = "Fraud" -> "fraud"
      [] s \in {"Market", "MARKET"} -> "market"
      [] s = "Macro" -> "macro"
      [] s = "Other" -> "other"
      [] OTHER -> s

DomainFixerOf(lowered) ==
    CASE lowered = "loan" -> <<"DomainLoanFixerStrategy">>
      [] lowered = "fraud" -> <<"DomainFraudFixerStrategy">>
      [] lowered = "market" -> <<"DomainMarketFixerStrategy">>
      [] lowered = "macro" -> <<"DomainMacroFixerStrategy">>
      [] OTHER -> <<>>

\* a factory that adds the consistency fixer before the domain fixer
create_fixing_pipeline_consistency_early(dataset_type) ==
    <<"MissingValueFixerStrategy", "OutlierFixerStrategy", "DataConsistencyFixerStrategy">>
    \o (IF dataset_type # "" THEN DomainFixerOf(lower(dataset_type)) ELSE <<>>)

\* PipelineFactory._create_fixing_pipeline
create_fixing_pipeline(dataset_type) ==
    <<"MissingValueFixerStrategy", "OutlierFixerStrategy">>
    \o (IF dataset_type # "" THEN DomainFixerOf(lower(dataset_type)) ELSE <<>>)
    \o <<"DataConsistencyFixerStrategy">>

\* DataFixer.create_pipeline
DataFixer_create_pipeline(dataset_type) ==
    <<"MissingValueFixerStrategy", "OutlierFixerStrategy">>
    \o (IF dataset_type # "" THEN DomainFixerOf(lower(dataset_type)) ELSE <<>>)
    \o <<"DataConsistencyFixerStrategy">>

(* ------------------------------ FixerPipeline --------------------------- *)
\* result_df = step.execute(result_df), the step's fixes added to the total
Executed(acc, r) == [df |-> r.result, n |-> acc.n + r.fix_count]

\* the loop of FixerPipeline.process from step k on: the table after the
\* last step and the fixes the steps logged
RECURSIVE RunSteps(_, _, _, _)
RunSteps(steps, k, acc, dataset_name) ==
    IF k > Len(steps) THEN acc
    ELSE RunSteps(steps, k + 1,
                  Executed(acc, fix(steps[k], acc.df, dataset_name, FALSE, 0)),
                  dataset_name)

\* FixerPipeline.process
FixerPipeline_process(steps, df, dataset_name) ==
    IF FrameIsEmpty(df) THEN Untouched(df)
    ELSE RunSteps(steps, 1, Untouched(df), dataset_name)

(* --------------------------- the tables fixed --------------------------- *)
\* the table whose row i is rows[i], with the columns cols
FrameOf(rows, cols) == [c \in cols |-> [i \in DOMAIN rows |-> rows[i][c]]]

FramesFrom(R, cols) == {FrameOf(rows, cols) : rows \in [Rows -> R]}

LoanRows ==
    {[Age |-> 40, CreditScore |-> 750, InterestRate |-> 5],
     [Age |-> -5, CreditScore |-> -10, InterestRate |-> -150],
     [Age |-> 0, CreditScore |-> 0, InterestRate |-> 0],
     [Age |-> 120, CreditScore |-> 900, InterestRate |-> 150]}

\* the CreditScore column of the loan scenario
LoanScenario == [CreditScore |-> <<-10, 300, 850, 900, 750>>]

BalanceRows ==
    {[CustomerID |-> 1, Balance |-> 5], [CustomerID |-> 1, Balance |-> 6],
     [CustomerID |-> 2, Balance |-> 5], [CustomerID |-> 3, Balance |-> 100]}

FraudRows ==
    {[IsOnlineTransaction |-> 1, IsUsedChip |-> 1, IsUsedPIN |-> 1, IsFraudulent |-> 0],
     [IsOnlineTransaction |-> 0, IsUsedChip |-> 1, IsUsedPIN |-> 1, IsFraudulent |-> 1],
     [IsOnlineTransaction |-> 1, IsUsedChip |-> 2, IsUsedPIN |-> 0, IsFraudulent |-> 0]}

MarketRows ==
    {[OpenValue |-> 12, CloseValue |-> 12, HighestValue |-> 20, LowestValue |-> 0],
     [OpenValue |-> 20, CloseValue |-> 16, HighestValue |-> 24, LowestValue |-> 16],
     [OpenValue |-> 1000, CloseValue |-> 900, HighestValue |-> 1000, LowestValue |-> 900],
     [OpenValue |-> 12, CloseValue |-> 12, HighestValue |-> 4, LowestValue |-> 8]}

MacroRows ==
    {[UnemploymentRate |-> 5, DebtRatio |-> 60, InflationRate |-> 3],
     [UnemploymentRate |-> -5, DebtRatio |-> -60, InflationRate |-> -3],
     [UnemploymentRate |-> 75, DebtRatio |-> 250, InflationRate |-> 150]}

\* the columns a table of this model can have
FrameColumns ==
    {"Age", "CreditScore", "InterestRate", "CustomerID", "Balance",
     "IsOnlineTransaction", "IsUsedChip", "IsUsedPIN", "IsFraudulent",
     "OpenValue", "CloseValue", "HighestValue", "LowestValue",
     "UnemploymentRate", "DebtRatio", "InflationRate"}

Frames(dataset_type) ==
    {EmptyFrame} \cup
    CASE dataset_type = "Loan" ->
            FramesFrom(LoanRows, {"Age", "CreditScore", "InterestRate"})
            \cup FramesFrom(BalanceRows, {"CustomerID", "Balance"})
            \cup {LoanScenario}
      [] dataset_type = "Fraud" ->
            FramesFrom(FraudRows, {"IsOnlineTransaction", "IsUsedChip", "IsUsedPIN",
                                   "IsFraudulent"})
            \cup FramesFrom(FraudRows, {"IsOnlineTransaction", "IsUsedChip", "IsUsedPIN"})
      [] dataset_type = "Market" ->
            FramesFrom(MarketRows, {"OpenValue", "CloseValue", "HighestValue",
                                    "LowestValue"})
      [] dataset_type = "Macro" ->
            FramesFrom(MacroRows, {"UnemploymentRate", "DebtRatio", "InflationRate"})
      [] OTHER -> {LoanScenario}

NoStrategy == "none"

InitFixers ==
    /\ config \in [parallel_processing : {FALSE}, max_workers : {1},
                   enable_caching : {FALSE}, checkpointing : {FALSE},
                   validate_after_fixing : {TRUE},
                   current_dataset : DatasetTypes]
    /\ env = [cache_writable |-> TRUE]
    /\ task = [d \in Datasets |-> InitTask]
    /\ disk = EmptyTier
    /\ outputs = [d \in Datasets |-> NoneTable]
    /\ summary = <<>>
    /\ phase = "idle"
    /\ validator = IdleValidator
    /\ \E df \in Frames(config.current_dataset) :
         fixer = [pc |-> "ready", dataset_type |-> config.current_dataset,
                  arg |-> df, input |-> df, result |-> df,
                  strategy |-> NoStrategy, failed |-> FALSE, raised |-> FALSE,
                  fix_count |-> [s \in Strategies |-> 0],
                  calls |-> 0, steps |-> <<>>, runs |-> 0, first |-> df, fixes |-> 0]
    /\ cache = Idle
    /\ transformer = Idle
    /\ generator = Idle
    /\ reporter = Idle
    /\ cleanup = Idle

\* one of the two factories builds the fixer pipeline for the dataset type
CreateFixingPipeline ==
    /\ fixer.pc = "ready"
    /\ fixer.steps = <<>>
    /\ fixer.calls = 0
    /\ \E steps \in {create_fixing_pipeline(fixer.dataset_type),
                     DataFixer_create_pipeline(fixer.dataset_type)} :
         fixer' = [fixer EXCEPT !.steps = steps]
    /\ UNCHANGED <<config, env, task, disk, outputs, summary, phase, validator,
                 cache, transformer, generator, reporter, cleanup>>

\* the strategy object and the caller's table after fix returned r
AfterFix(f, strategy, fails, df, r) ==
    [f EXCEPT !.arg = df, !.input = r.input, !.result = r.result,
              !.strategy = strategy, !.failed = fails, !.raised = r.raised,
              !.fix_count[strategy] = r.fix_count,
              !.calls = @ + 1]

\* the strategies of the dataset type's pipeline
StrategiesOf(dataset_type) ==
    {create_fixing_pipeline(dataset_type)[k] :
        k \in DOMAIN create_fixing_pipeline(dataset_type)}

\* what fix is called on: the table at hand first, then what the previous
\* call returned
NextArg(f, n) == IF n = 0 THEN f.arg ELSE f.result

\* strategy.fix(df); fails tells whether _fix raises
Fix ==
    /\ fixer.pc = "ready"
    /\ fixer.steps = <<>>
    /\ fixer.calls < MaxCalls
    /\ \E strategy \in StrategiesOf(fixer.dataset_type), fails \in BOOLEAN :
         /\ fixer.calls > 0 => strategy = fixer.strategy
         /\ fixer' = AfterFix(fixer, strategy, fails, NextArg(fixer, fixer.calls),
                              fix(strategy, NextArg(fixer, fixer.calls),
                                  get_config("current_dataset"), fails,
                                  fixer.fix_count[strategy]))
    /\ UNCHANGED <<config, env, task, disk, outputs, summary, phase, validator,
                 cache, transformer, generator, reporter, cleanup>>

\* the pipeline object and the tables after process returned r
AfterProcess(f, df, r) ==
    [f EXCEPT !.arg = df, !.input = df, !.result = r.df, !.fixes = r.n,
              !.first = IF f.runs = 0 THEN r.df ELSE @,
              !.runs = @ + 1]

\* pipeline.process(df): on the table at hand first, then on its own output
Process ==
    /\ fixer.pc = "ready"
    /\ fixer.steps # <<>>
    /\ fixer.runs < MaxCalls
    /\ fixer' = AfterProcess(fixer, NextArg(fixer, fixer.runs),
                             FixerPipeline_process(fixer.steps, NextArg(fixer, fixer.runs),
                                                   get_config("current_dataset")))
    /\ UNCHANGED <<config, env, task, disk, outputs, summary, phase, validator,
                 cache, transformer, generator, reporter, cleanup>>

NextFixers == CreateFixingPipeline \/ Fix \/ Process

SpecFixers == InitFixers /\ [][NextFixers]_vars

(* ------------------------- properties of the fixers --------------------- *)
\* a call of fix by the strategy s has returned, _fix did not raise
FixedBy(s) == fixer.calls > 0 /\ fixer.strategy = s /\ ~fixer.failed

\* every value of the column is between lo and hi
Within(col, lo, hi) == \A i \in DOMAIN col : lo <= col[i] /\ col[i] <= hi

\* C14: fix never raises and leaves the caller's table as it was; when _fix
\* fails the table passed in is returned, an empty table is returned as it
\* is, and the fix counter counts the fixes of the last call only.
C14_FixContract ==
    fixer.calls > 0 =>
        /\ ~fixer.raised
        /\ fixer.input = fixer.arg
        /\ fixer.failed => fixer.result = fixer.arg
        /\ FrameIsEmpty(fixer.arg) => fixer.result = fixer.arg
        /\ fixer.fix_count[fixer.strategy] =
              IF FrameIsEmpty(fixer.arg) THEN 0
              ELSE StrategyFix(fixer.strategy, fixer.arg, config.current_dataset).n

\* the second call of a strategy failed on a table that _fix had changed
\* and logged fixes for, after a first call that logged fixes too
C14_Witness ==
    /\ fixer.calls = 2
    /\ fixer.failed
    /\ StrategyFix(fixer.strategy, fixer.arg, config.current_dataset).df # fixer.arg
    /\ fixer.fix_count[fixer.strategy] > 0
    /\ fixer.result = fixer.arg
    /\ fixer.input = fixer.arg

\* C15: the pipeline a factory builds is MissingValueFixer, OutlierFixer, at
\* most one domain fixer (the one of loan, fraud, market or macro when the
\* type is that word in any case, none otherwise), ConsistencyFixer last.
C15_FixerPipelineOrder ==
    fixer.steps # <<>> =>
        /\ fixer.steps[1] = "MissingValueFixerStrategy"
        /\ fixer.steps[2] = "OutlierFixerStrategy"
        /\ fixer.steps[Len(fixer.steps)] = "DataConsistencyFixerStrategy"
        /\ Len(fixer.steps) =
              IF fixer.dataset_type \in {"Loan", "loan", "Fraud", "Market", "MARKET", "Macro"}
              THEN 4 ELSE 3
        /\ fixer.dataset_type \in {"Loan", "loan"} =>
              fixer.steps[3] = "DomainLoanFixerStrategy"
        /\ fixer.dataset_type = "Fraud" => fixer.steps[3] = "DomainFraudFixerStrategy"
        /\ fixer.dataset_type \in {"Market", "MARKET"} =>
              fixer.steps[3] = "DomainMarketFixerStrategy"
        /\ fixer.dataset_type = "Macro" => fixer.steps[3] = "DomainMacroFixerStrategy"

\* the pipeline of the type "MARKET" has been built
C15_Witness ==
    /\ fixer.dataset_type = "MARKET"
    /\ fixer.steps = <<"MissingValueFixerStrategy", "OutlierFixerStrategy",
                       "DomainMarketFixerStrategy", "DataConsistencyFixerStrategy">>

\* C16: after the Loan domain fixer, Age is in [18,100], CreditScore in
\* [300,850] and InterestRate in [0,100] in every row, whatever the values
\* were; the CreditScore column [-10, 300, 850, 900, 750] becomes
\* [300, 300, 850, 850, 750].
C16_LoanRanges ==
    FixedBy("DomainLoanFixerStrategy") =>
        /\ "Age" \in DOMAIN fixer.result => Within(fixer.result["Age"], 18, 100)
        /\ "CreditScore" \in DOMAIN fixer.result =>
              Within(fixer.result["CreditScore"], 300, 850)
        /\ "InterestRate" \in DOMAIN fixer.result =>
              Within(fixer.result["InterestRate"], 0, 100)
        /\ fixer.arg = LoanScenario =>
              fixer.result["CreditScore"] = <<300, 300, 850, 850, 750>>

\* C17: after the Market domain fixer, every row has HighestValue at least
\* LowestValue, and OpenValue and CloseValue between the two.
C17_MarketPriceRelationships ==
    (FixedBy("DomainMarketFixerStrategy") /\ HasAll(fixer.result, PriceColumns)) =>
        \A i \in DOMAIN fixer.result["HighestValue"] :
            /\ fixer.result["HighestValue"][i] >= fixer.result["LowestValue"][i]
            /\ fixer.result["LowestValue"][i] <= fixer.result["OpenValue"][i]
            /\ fixer.result["OpenValue"][i] <= fixer.result["HighestValue"][i]
            /\ fixer.result["LowestValue"][i] <= fixer.result["CloseValue"][i]
            /\ fixer.result["CloseValue"][i] <= fixer.result["HighestValue"][i]

\* every indicator of the table is 0 or 1
BinaryIndicators(df) == \A c \in DOMAIN df : Within(df[c], 0, 1)

\* C18: after the ConsistencyFixer on a table of the Fraud dataset, whose
\* indicators are 0 or 1, every row with IsOnlineTransaction = 1 has
\* IsUsedChip = 0 and IsUsedPIN = 0, whichever other columns there are.
C18_FraudOnlineConsistency ==
    ( /\ FixedBy("DataConsistencyFixerStrategy")
      /\ config.current_dataset = "Fraud"
      /\ HasAll(fixer.arg, {"IsOnlineTransaction", "IsUsedChip", "IsUsedPIN"})
      /\ BinaryIndicators(fixer.arg) ) =>
        \A i \in DOMAIN fixer.result["IsOnlineTransaction"] :
            fixer.result["IsOnlineTransaction"][i] = 1 =>
                /\ fixer.result["IsUsedChip"][i] = 0
                /\ fixer.result["IsUsedPIN"][i] = 0

\* C19: the full fixer pipeline applied to its own output changes no value
\* and performs 0 fixes.
C19_PipelineIdempotent ==
    fixer.runs = 2 => fixer.result = fixer.first /\ fixer.fixes = 0

\* the quartile bounds of a column for the threshold k
InputBounds(col, k) == calculate_bounds(col, k)

\* C20: after the OutlierFixer with threshold k, a processed column whose
\* IQR is above 0 lies within [Q1 - k*IQR, Q3 + k*IQR] of the column as it
\* was passed in, and a skipped column is as it was.
C20_OutlierBounds ==
    FixedBy("OutlierFixerStrategy") =>
        \A c \in DOMAIN fixer.arg :
            IF should_skip_column(c, fixer.arg, config.current_dataset)
            THEN fixer.result[c] = fixer.arg[c]
            ELSE ~InputBounds(fixer.arg[c], OutlierThreshold).none =>
                    Within(fixer.result[c],
                           InputBounds(fixer.arg[c], OutlierThreshold).lower_bound,
                           InputBounds(fixer.arg[c], OutlierThreshold).upper_bound)

\* the cap the Macro fixer is to hold a ratio column to
MacroCap(c) == IF c = "UnemploymentRate" THEN 50 ELSE IF c = "InflationRate" THEN 100 ELSE 200

\* C23: after the Macro domain fixer, UnemploymentRate is at most 50,
\* InflationRate at most 100, DebtRatio and DeficitRatio at most 200 in
\* every row; a negative UnemploymentRate, DebtRatio or DeficitRatio has
\* become its absolute value and a negative InflationRate is kept.
C23_MacroCaps ==
    FixedBy("DomainMacroFixerStrategy") =>
        \A c \in DOMAIN fixer.result \cap
                 {"UnemploymentRate", "InflationRate", "DebtRatio", "DeficitRatio"} :
            \A i \in DOMAIN fixer.result[c] :
                /\ fixer.result[c][i] <= MacroCap(c)
                /\ fixer.arg[c][i] < 0 =>
                      IF c = "InflationRate" THEN fixer.result[c][i] = fixer.arg[c][i]
                      ELSE fixer.result[c][i] \in {-fixer.arg[c][i], MacroCap(c)}

(* ------------------- CacheManager, called directly --------------------- *)
\* the engine's variables while one of the objects below is driven alone
EngineIdle ==
    /\ config = [parallel_processing |-> FALSE, max_workers |-> 1,
                 enable_caching |-> TRUE, checkpointing |-> FALSE,
                 validate_after_fixing |-> TRUE, current_dataset |-> SystemContext]
    /\ env = [cache_writable |-> TRUE]
    /\ task = [d \in Datasets |-> InitTask]
    /\ disk = EmptyTier
    /\ outputs = [d \in Datasets |-> NoneTable]
    /\ summary = <<>>
    /\ phase = "idle"
    /\ validator = IdleValidator
    /\ fixer = IdleFixer

EngineVars == <<config, env, task, disk, outputs, summary, phase, validator, fixer>>

\* the dataset names and step names the cache is called with
CacheDatasets == {<<"Loan">>, <<"Loan", "Extra">>}
CacheSteps == {<<"DataCleaning">>, <<"DataValidation", "Pre">>}
MaxStage == 2

\* k.startswith(f"{dataset_name}_"), and the glob f"{dataset_name}_*.pkl"
StartsWith(k, dataset_name) ==
    /\ Len(k) > Len(dataset_name)
    /\ SubSeq(k, 1, Len(dataset_name)) = dataset_name

Without(tier, keys) == [k \in DOMAIN tier \ keys |-> tier[k]]

\* clear_cache(dataset_name): [memory', disk'] ; the empty name clears all
clear_cache(enabled, memory, disk_tier, dataset_name) ==
    IF ~enabled THEN [memory |-> memory, disk |-> disk_tier]
    ELSE IF dataset_name # <<>>
    THEN [memory |-> Without(memory, {k \in DOMAIN memory : StartsWith(k, dataset_name)}),
          disk |-> Without(disk_tier, {k \in DOMAIN disk_tier : StartsWith(k, dataset_name)})]
    ELSE [memory |-> EmptyTier, disk |-> EmptyTier]

\* the caller's side of one call: the operation, its arguments, the table
\* passed in (df; after a change by the caller, the table as it was before)
\* and the table object the caller holds afterwards (value)
Call(op, dataset_name, step_name, df, value) ==
    [op |-> op, dataset_name |-> dataset_name, step_name |-> step_name,
     df |-> df, value |-> value]

InitCache ==
    /\ EngineIdle
    /\ \E enabled \in BOOLEAN :
         cache = [pc |-> "ready", enabled |-> enabled, memory |-> EmptyTier,
                  disk |-> EmptyTier, last |-> Call("none", <<>>, <<>>, NoneTable, NoneTable)]
    /\ transformer = Idle
    /\ generator = Idle
    /\ reporter = Idle
    /\ cleanup = Idle

CacheFrame == UNCHANGED <<EngineVars, transformer, generator, reporter, cleanup>>

\* save_to_cache(df, dataset_name, step_name) with one of the dataset's tables
CacheSave ==
    /\ cache.pc = "ready"
    /\ \E dataset_name \in CacheDatasets, step_name \in CacheSteps, writable \in BOOLEAN :
       \E df \in {Table(dataset_name, n) : n \in 1..MaxStage} \cup {EmptyTable} :
         LET saved == save_to_cache(cache.enabled, writable, cache.memory, cache.disk,
                                    df, dataset_name, step_name)
         IN cache' = [cache EXCEPT !.memory = saved.memory, !.disk = saved.disk,
                                   !.last = Call("save", dataset_name, step_name, df, df)]
    /\ CacheFrame

\* get_from_cache(dataset_name, step_name)
CacheGet ==
    /\ cache.pc = "ready"
    /\ \E dataset_name \in CacheDatasets, step_name \in CacheSteps :
         LET got == get_from_cache(cache.enabled, cache.memory, cache.disk,
                                   dataset_name, step_name)
         IN cache' = [cache EXCEPT !.memory = got.memory,
                                   !.last = Call("get", dataset_name, step_name,
                                                 NoneTable, got.value)]
    /\ CacheFrame

\* the caller changes the table it holds, the one it passed to save_to_cache
\* or got from get_from_cache: the tiers hold copies (df.copy() at each
\* store and each memory hit, a fresh unpickled table at a disk hit), so
\* the change is to the caller's object alone
CacheMutate ==
    /\ cache.pc = "ready"
    /\ cache.last.op \in {"save", "get"}
    /\ cache.last.value.kind = "table"
    /\ cache.last.value.stage <= MaxStage
    /\ cache' = [cache EXCEPT !.last.op = "mutate",
                              !.last.df = cache.last.value,
                              !.last.value.stage = @ + MaxStage]
    /\ CacheFrame

\* clear_cache(dataset_name), and clear_cache() with no name
CacheClear ==
    /\ cache.pc = "ready"
    /\ \E dataset_name \in CacheDatasets \cup {<<>>} :
         LET cleared == clear_cache(cache.enabled, cache.memory, cache.disk, dataset_name)
         IN cache' = [cache EXCEPT !.memory = cleared.memory, !.disk = cleared.disk,
                                   !.last = Call("clear", dataset_name, <<>>,
                                                 NoneTable, NoneTable)]
    /\ CacheFrame

\* a new CacheManager over the same cache directory: its memory tier is empty
CacheRestart ==
    /\ cache.pc = "ready"
    /\ cache.memory # EmptyTier
    /\ cache' = [cache EXCEPT !.memory = EmptyTier,
                              !.last = Call("init", <<>>, <<>>, NoneTable, NoneTable)]
    /\ CacheFrame

NextCache == CacheSave \/ CacheGet \/ CacheMutate \/ CacheClear \/ CacheRestart

SpecCache == InitCache /\ [][NextCache]_vars

\* what get_from_cache(dataset_name, step_name) would return in cache state c
CacheLookup(c, dataset_name, step_name) ==
    get_from_cache(c.enabled, c.memory, c.disk, dataset_name, step_name).value

\* what the tiers held under the key of the call just made
TierEntry(tier, c) ==
    IF c.dataset_name \o c.step_name \in DOMAIN tier
    THEN tier[c.dataset_name \o c.step_name] ELSE NoneTable

\* the three parts of the round trip, for the call that leads to cache';
\* "stores" says which save_to_cache calls are held to store their table
RoundTrip(stores) ==
    LET c == cache'.last IN
    /\ c.op = "save" /\ stores =>
          CacheLookup(cache', c.dataset_name, c.step_name) = c.df
    /\ c.op = "get" /\ cache.enabled =>
          c.value = IF TierEntry(cache.memory, c) # NoneTable
                    THEN TierEntry(cache.memory, c)
                    ELSE TierEntry(cache.disk, c)
    /\ c.op = "mutate" /\ cache.last.op = "get" /\ stores =>
          /\ CacheLookup(cache', c.dataset_name, c.step_name) = c.df
          /\ c.value # c.df

EntriesOf(tier, X) == {k \in DOMAIN tier : tier[k].owner = X}

\* the call leaves every entry the tier holds for another dataset than X
KeepsOthers(before, after, X) ==
    \A k \in DOMAIN before \ EntriesOf(before, X) :
        k \in DOMAIN after /\ after[k] = before[k]

\* C29: save_to_cache and clear_cache for dataset X leave every entry stored
\* for another dataset Y as it was, in the memory tier and in the disk tier,
\* also when Y is X followed by an underscore and more text;
\* get_from_cache for X returns no table stored for another dataset; and
\* after clear_cache(X) neither tier holds an entry of X.
C29_CacheIsolation ==
    [][LET c == cache'.last IN
       /\ c.op \in {"save", "clear"} /\ c.dataset_name # <<>> =>
             /\ KeepsOthers(cache.memory, cache'.memory, c.dataset_name)
             /\ KeepsOthers(cache.disk, cache'.disk, c.dataset_name)
       /\ c.op = "get" /\ c.value.kind = "table" =>
             c.value.owner = c.dataset_name
       /\ c.op = "clear" /\ c.dataset_name # <<>> =>
             /\ EntriesOf(cache'.memory, c.dataset_name) = {}
             /\ EntriesOf(cache'.disk, c.dataset_name) = {}
      ]_vars

(* ------------- transformers.py: SchemaStrategy, called directly -------- *)
\* Configuration.sql_schema_details of the fallback schemas
sql_schema_details ==
    [Market |-> [MarketID |-> [identity |-> TRUE]],
     Macro  |-> [MacroID |-> [identity |-> TRUE]]]

get_identity_columns(dataset_name) ==
    IF dataset_name \in DOMAIN sql_schema_details
    THEN {col_name \in DOMAIN sql_schema_details[dataset_name] :
            sql_schema_details[dataset_name][col_name].identity}
    ELSE {}

\* the column names a source table has, and str.lower on them
SourceColumns == {"value", "VALUE", "LoadBatchID"}
Lower(name) ==
    IF name \in {"value", "VALUE"} THEN "value"
    ELSE IF name = "LoadBatchID" THEN "loadbatchid" ELSE name

\* what a source column holds: numbers, text, or numbers with an infinite one
Contents == {"numbers", "text", "inf"}

\* a source table: its columns with what they hold, and whether it has rows
SourceTables ==
    UNION {[cols -> Contents] \X BOOLEAN : cols \in SUBSET SourceColumns}

NoMapping == "<none>"

\* the field_mappings of a dataset, target field -> source field
FieldMappings(dataset_name) ==
    [DOMAIN get_schema_for_dataset(dataset_name) -> {"value", "VALUE", NoMapping}]

\* _convert_to_sql_type: "converted", or "null" for the all-None column
\* returned when the conversion raises; astype(int) raises on a column of
\* numbers with an infinite value, the other conversions coerce or map
convert_to_sql_type(contents, sql_type) ==
    IF sql_type = "INT" /\ contents = "inf" THEN "null" ELSE "converted"

\* the source column matched for a mapped source field: the exact name
\* first, then a column with the same lower-case name
matched_column(columns, source_field) ==
    IF source_field = NoMapping THEN NoMapping
    ELSE IF source_field \in columns THEN source_field
    ELSE IF \E col \in columns : Lower(col) = Lower(source_field)
         THEN CHOOSE col \in columns : Lower(col) = Lower(source_field)
    ELSE NoMapping

\* SchemaStrategy.transform: [returned_input, columns, fields_for_generation];
\* columns maps each column of the returned table to how it was made
SchemaStrategy_transform(dataset_name, df, has_rows, field_mappings) ==
    LET target_schema == get_schema_for_dataset(dataset_name)
        as_passed == [returned_input |-> TRUE,
                      columns |-> [c \in DOMAIN df |-> "source"],
                      fields_for_generation |-> {}]
        columns_to_skip == get_identity_columns(dataset_name)
                           \cup {col \in DOMAIN df : Lower(col) = "loadbatchid"}
        targets == DOMAIN target_schema \ columns_to_skip
    IN
    IF ~has_rows \/ DOMAIN df = {} THEN as_passed
    ELSE IF DOMAIN target_schema = {} THEN as_passed
    ELSE [returned_input |-> FALSE,
          columns |->
            [target_field \in targets |->
               IF matched_column(DOMAIN df, field_mappings[target_field]) # NoMapping
               THEN convert_to_sql_type(
                        df[matched_column(DOMAIN df, field_mappings[target_field])],
                        target_schema[target_field])
               ELSE "null"],
          fields_for_generation |->
            {target_field \in targets :
               matched_column(DOMAIN df, field_mappings[target_field]) = NoMapping}]

InitSchema ==
    /\ EngineIdle
    /\ cache = Idle
    /\ \E dataset_name \in {"Loan", "Fraud", "Market", "Macro", "Other"} :
       \E table \in SourceTables, field_mappings \in FieldMappings(dataset_name) :
         transformer = [pc |-> "ready", dataset_name |-> dataset_name,
                        df |-> table[1], has_rows |-> table[2],
                        field_mappings |-> field_mappings,
                        returned_input |-> FALSE,
                        columns |-> [c \in {} |-> "source"],
                        fields_for_generation |-> {},
                        synthetic_fields |-> {}]
    /\ generator = Idle
    /\ reporter = Idle
    /\ cleanup = Idle

\* transform(df), which also stores the list in "<dataset>_synthetic_fields"
SchemaTransform ==
    /\ transformer.pc = "ready"
    /\ LET out == SchemaStrategy_transform(transformer.dataset_name, transformer.df,
                                           transformer.has_rows, transformer.field_mappings)
       IN transformer' = [transformer EXCEPT
                            !.pc = "done",
                            !.returned_input = out.returned_input,
                            !.columns = out.columns,
                            !.fields_for_generation = out.fields_for_generation,
                            !.synthetic_fields =
                                IF out.returned_input THEN @ ELSE out.fields_for_generation]
    /\ UNCHANGED <<EngineVars, cache, generator, reporter, cleanup>>

NextSchema == SchemaTransform

SpecSchema == InitSchema /\ [][NextSchema]_vars

\* C21: for a dataset with a non-empty target schema and a table that is
\* not empty, the table SchemaStrategy.transform returns has every column
\* of the target schema that is no identity column, each either converted
\* from its mapped source column or null-filled and recorded as needing
\* synthetic generation.
C21_SchemaOutputColumns ==
    /\ transformer.pc = "done"
    /\ get_schema_for_dataset(transformer.dataset_name) # EmptySchema
    /\ transformer.has_rows /\ DOMAIN transformer.df # {}
    => \A target_field \in DOMAIN get_schema_for_dataset(transformer.dataset_name)
                           \ get_identity_columns(transformer.dataset_name) :
          /\ target_field \in DOMAIN transformer.columns
          /\ \/ transformer.columns[target_field] = "converted"
             \/ /\ transformer.columns[target_field] = "null"
                /\ target_field \in transformer.fields_for_generation

(* ---------- validators.py: DataQualityReporter, called by threads ------ *)
\* the threads that generate reports and the reporter objects they use; a
\* Validator builds a reporter of its own, the service has one more
NumThreads == 3
NumReporters == 2
Threads == 1..NumThreads
Reporters == 1..NumReporters
NoThread == 0

\* DataQualityReporter.__init__: each reporter object has a _plot_lock of
\* its own, free at first
InitReports ==
    /\ EngineIdle
    /\ cache = Idle
    /\ transformer = Idle
    /\ generator = Idle
    /\ reporter = [pc |-> "ready",
                   thread |-> [t \in Threads |-> [pc |-> "idle", self |-> 1]],
                   plot_lock |-> [r \in Reporters |-> NoThread]]
    /\ cleanup = Idle

ReportsFrame == UNCHANGED <<EngineVars, cache, transformer, generator, cleanup>>

\* thread t calls _generate_quality_reports on reporter r with a table that
\* is not empty, and reaches "with self._plot_lock"
EnterReport(t) ==
    /\ reporter.pc = "ready"
    /\ reporter.thread[t].pc = "idle"
    /\ \E r \in Reporters :
         reporter' = [reporter EXCEPT !.thread[t] = [pc |-> "waiting", self |-> r]]
    /\ ReportsFrame

\* the thread acquires self._plot_lock and is in the chart/PDF section
AcquirePlotLock(t) ==
    /\ reporter.pc = "ready"
    /\ reporter.thread[t].pc = "waiting"
    /\ reporter.plot_lock[reporter.thread[t].self] = NoThread
    /\ reporter' = [reporter EXCEPT !.thread[t].pc = "plotting",
                                    !.plot_lock[reporter.thread[t].self] = t]
    /\ ReportsFrame

\* the section is left, by its end or by an exception, and the lock released
ReleasePlotLock(t) ==
    /\ reporter.pc = "ready"
    /\ reporter.thread[t].pc = "plotting"
    /\ reporter' = [reporter EXCEPT !.thread[t].pc = "idle",
                                    !.plot_lock[reporter.thread[t].self] = NoThread]
    /\ ReportsFrame

NextReports ==
    \E t \in Threads : EnterReport(t) \/ AcquirePlotLock(t) \/ ReleasePlotLock(t)

SpecReports == InitReports /\ [][NextReports]_vars

\* C24: no two threads are in the chart/PDF generation section at the same
\* time, whichever reporter object each of them uses.
C24_PlotSectionExclusive ==
    reporter.pc = "ready" =>
        \A t1, t2 \in Threads :
            reporter.thread[t1].pc = "plotting" /\ reporter.thread[t2].pc = "plotting"
                => t1 = t2

(* ------ transformers.py: DataGenerationStrategy._generate_unique_account_id ---- *)
\* the dataset tasks that generate AccountIDs, each with a strategy instance
\* of its own, the numeric parts random.randint can draw, and the calls
\* followed
NumGenerators == 2
NumAccountIds == 2
MaxIdCalls == 3
Generators == 1..NumGenerators
AccountIds == 1..NumAccountIds

\* _global_account_registry is a class attribute, empty when the class is
\* loaded; _generated_account_ids belongs to the instance
InitAccountIds ==
    /\ EngineIdle
    /\ cache = Idle
    /\ transformer = Idle
    /\ generator = [pc |-> "ids",
                    global_account_registry |-> {},
                    thread |-> [t \in Generators |->
                                  [pc |-> "idle", account_id |-> 1,
                                   generated_account_ids |-> {}]],
                    returned |-> <<>>]
    /\ reporter = Idle
    /\ cleanup = Idle

AccountIdsFrame == UNCHANGED <<EngineVars, cache, transformer, reporter, cleanup>>

\* a pass of the loop draws account_id
DrawAccountId(t) ==
    /\ generator.pc = "ids"
    /\ generator.thread[t].pc = "idle"
    /\ Len(generator.returned)
         + Cardinality({u \in Generators : generator.thread[u].pc # "idle"}) < MaxIdCalls
    /\ \E account_id \in AccountIds :
         generator' = [generator EXCEPT !.thread[t].pc = "drawn",
                                        !.thread[t].account_id = account_id]
    /\ AccountIdsFrame

\* "if account_id not in _global_account_registry": on to the adds, or the
\* next pass of the loop
CheckAccountId(t) ==
    /\ generator.pc = "ids"
    /\ generator.thread[t].pc = "drawn"
    /\ generator' = [generator EXCEPT !.thread[t].pc =
          IF generator.thread[t].account_id \notin generator.global_account_registry
          THEN "unique" ELSE "idle"]
    /\ AccountIdsFrame

\* the two adds and the return
ReturnAccountId(t) ==
    /\ generator.pc = "ids"
    /\ generator.thread[t].pc = "unique"
    /\ generator' = [generator EXCEPT
          !.thread[t].pc = "idle",
          !.thread[t].generated_account_ids = @ \cup {generator.thread[t].account_id},
          !.global_account_registry = @ \cup {generator.thread[t].account_id},
          !.returned = Append(@, generator.thread[t].account_id)]
    /\ AccountIdsFrame

NextAccountIds ==
    \E t \in Generators : DrawAccountId(t) \/ CheckAccountId(t) \/ ReturnAccountId(t)

SpecAccountIds == InitAccountIds /\ [][NextAccountIds]_vars

\* C26: the AccountIDs returned by _generate_unique_account_id, over all
\* instances and threads, are pairwise different, and every returned ID is
\* in the class-level registry.
C26_AccountIdsUnique ==
    generator.pc = "ids" =>
        /\ \A i, j \in DOMAIN generator.returned :
              generator.returned[i] = generator.returned[j] => i = j
        /\ \A i \in DOMAIN generator.returned :
              generator.returned[i] \in generator.global_account_registry

(* ---- transformers.py: DataGenerationStrategy and the ID inventory ----- *)
\* the datasets of one sequential run and the values of the ID field
\* (CustomerID, say) that a dataset's source has when the field is mapped
IdDatasets == {"Loan", "Fraud", "Market"}
MappedIds(d) == IF d = "Loan" THEN {1, 2} ELSE IF d = "Fraud" THEN {3} ELSE {4}
\* range(start, start + row_count) from a random start: values of the
\* dataset's own
SequentialIds(d) == IF d = "Loan" THEN {11} ELSE IF d = "Fraud" THEN {12} ELSE {13}

NoValues == {}

\* _initialize_id_inventory: [inventory, scanned] ; the *_cooked.csv files
\* of the output directory are read once, a directory already scanned is
\* not read again
initialize_id_inventory(maintain, inventory, scanned, files) ==
    IF ~maintain \/ scanned
    THEN [inventory |-> inventory, scanned |-> scanned]
    ELSE [inventory |-> [s \in {f \in DOMAIN files : files[f] # NoValues} |-> files[s]],
          scanned |-> TRUE]

\* the values of the inventory's sources other than the dataset's own file
OtherSources(inventory, dataset_name) ==
    UNION {inventory[s] : s \in DOMAIN inventory \ {dataset_name}}

\* _load_existing_id_values(field_name) of the instance for dataset_name:
\* [values, inventory, scanned, global_id_cache] ; NoValues stands for None
load_existing_id_values(maintain, g, files, dataset_name) ==
    LET init == IF g.id_field_inventory = <<>>
                THEN initialize_id_inventory(maintain, g.id_field_inventory,
                                             g.scanned_directories, files)
                ELSE [inventory |-> g.id_field_inventory,
                      scanned |-> g.scanned_directories]
    IN
    IF ~maintain
    THEN [values |-> NoValues, inventory |-> g.id_field_inventory,
          scanned |-> g.scanned_directories, global_id_cache |-> g.global_id_cache]
    ELSE IF g.global_id_cache # NoValues
    THEN [values |-> g.global_id_cache, inventory |-> g.id_field_inventory,
          scanned |-> g.scanned_directories, global_id_cache |-> g.global_id_cache]
    ELSE [values |-> OtherSources(init.inventory, dataset_name),
          inventory |-> init.inventory, scanned |-> init.scanned,
          global_id_cache |-> OtherSources(init.inventory, dataset_name)]

\* the class attributes are empty when the run starts, and so is the output
\* directory; each dataset has the ID field mapped or left for generation
InitInventory ==
    /\ EngineIdle
    /\ cache = Idle
    /\ transformer = Idle
    /\ \E maintain \in BOOLEAN, unmapped \in SUBSET IdDatasets :
         generator = [pc |-> "inventory",
                      maintain_id_relationships |-> maintain,
                      unmapped |-> unmapped,
                      id_field_inventory |-> <<>>,
                      scanned_directories |-> FALSE,
                      global_id_cache |-> NoValues,
                      files |-> [d \in IdDatasets |-> NoValues],
                      state |-> [d \in IdDatasets |-> "queued"],
                      values |-> [d \in IdDatasets |-> NoValues],
                      written_before |-> [d \in IdDatasets |-> NoValues]]
    /\ reporter = Idle
    /\ cleanup = Idle

InventoryFrame == UNCHANGED <<EngineVars, cache, transformer, reporter, cleanup>>

\* the Transformation step of dataset d in a sequential run: a mapped ID
\* field keeps the source's values, an unmapped one is generated by
\* _generate_integer_data, a sample of the existing values or sequential IDs
TransformIds(d) ==
    /\ generator.pc = "inventory"
    /\ generator.state[d] = "queued"
    /\ \A o \in IdDatasets : generator.state[o] # "transformed"
    /\ LET existing == load_existing_id_values(generator.maintain_id_relationships,
                                               generator, generator.files, d)
           seen == UNION {generator.files[o] : o \in IdDatasets \ {d}}
       IN
       IF d \notin generator.unmapped
       THEN generator' = [generator EXCEPT !.state[d] = "transformed",
                                           !.values[d] = MappedIds(d),
                                           !.written_before[d] = seen]
       ELSE \E sample \in (IF existing.values # NoValues
                           THEN SUBSET existing.values \ {{}}
                           ELSE {SequentialIds(d)}) :
              generator' = [generator EXCEPT !.state[d] = "transformed",
                                             !.values[d] = sample,
                                             !.written_before[d] = seen,
                                             !.id_field_inventory = existing.inventory,
                                             !.scanned_directories = existing.scanned,
                                             !.global_id_cache = existing.global_id_cache]
    /\ InventoryFrame

\* the dataset's <name>_cooked.csv is written to the output directory
WriteCooked(d) ==
    /\ generator.pc = "inventory"
    /\ generator.state[d] = "transformed"
    /\ generator' = [generator EXCEPT !.state[d] = "written",
                                      !.files[d] = generator.values[d]]
    /\ InventoryFrame

NextInventory == \E d \in IdDatasets : TransformIds(d) \/ WriteCooked(d)

SpecInventory == InitInventory /\ [][NextInventory]_vars

\* C27: in a sequential run with relationship maintenance on, a dataset
\* whose ID field is unmapped, and whose transformation ran after another
\* dataset's output file with non-zero values of the field was written, has
\* values of the field that all come from the values written before.
C27_IdsSampledFromEarlierOutput ==
    generator.pc = "inventory" /\ generator.maintain_id_relationships =>
        \A d \in generator.unmapped :
            generator.state[d] # "queued" /\ generator.written_before[d] # NoValues
                => generator.values[d] \subseteq generator.written_before[d]

(* ------- engine.py: FinalCustomStep._ensure_sql_compatibility ---------- *)
\* an AccountID is the sequence of its parts between underscores, <<"X", "01">>
\* for "X_01"; a table is the sequence of the AccountIDs of its rows
NumIdRows == 3
AccountIdValues == {<<"X">>, <<"X", "01">>, <<"Y">>}
AccountIdTables == UNION {[1..n -> AccountIdValues] : n \in 1..NumIdRows}

\* f"{i:02d}"
TwoDigits(i) == IF i = 1 THEN "01" ELSE IF i = 2 THEN "02" ELSE IF i = 3 THEN "03" ELSE "04"

\* df.duplicated(subset=['AccountID'], keep=False)
Duplicated(ids, k) == \E j \in DOMAIN ids : j # k /\ ids[j] = ids[k]

\* df.loc[duplicates, 'AccountID'].unique(): the duplicated values in the
\* order of their first rows
RECURSIVE DuplicateIds(_, _)
DuplicateIds(ids, k) ==
    IF k > Len(ids) THEN <<>>
    ELSE IF Duplicated(ids, k) /\ \A j \in 1..(k - 1) : ids[j] # ids[k]
         THEN <<ids[k]>> \o DuplicateIds(ids, k + 1)
         ELSE DuplicateIds(ids, k + 1)

\* the inner loop for one dup_id: of the rows that hold it now, the first
\* keeps it and the i-th after it gets dup_id + "_" + f"{i:02d}"
AddSuffixes(ids, dup_id) ==
    [k \in DOMAIN ids |->
        LET i == Cardinality({j \in 1..(k - 1) : ids[j] = dup_id}) IN
        IF ids[k] = dup_id /\ i >= 1 THEN Append(dup_id, TwoDigits(i)) ELSE ids[k]]

RECURSIVE FixDuplicateIds(_, _)
FixDuplicateIds(ids, duplicate_ids) ==
    IF duplicate_ids = <<>> THEN ids
    ELSE FixDuplicateIds(AddSuffixes(ids, Head(duplicate_ids)), Tail(duplicate_ids))

\* _ensure_sql_compatibility on the AccountID column: a dataset without a
\* schema gets its table back as it is; what is left duplicated after
\* the loop is logged only
ensure_sql_compatibility(ids, dataset_name) ==
    IF get_schema_for_dataset(dataset_name) = EmptySchema THEN ids
    ELSE FixDuplicateIds(ids, DuplicateIds(ids, 1))

InitCleanup ==
    /\ EngineIdle
    /\ cache = Idle
    /\ transformer = Idle
    /\ generator = Idle
    /\ reporter = Idle
    /\ \E dataset_name \in {"Loan", "Other"}, ids \in AccountIdTables :
         cleanup = [pc |-> "ready", current_dataset |-> dataset_name,
                    df |-> ids, result |-> ids]

\* FinalCustomStep.execute on a table that is not empty
CleanupExecute ==
    /\ cleanup.pc = "ready"
    /\ cleanup' = [cleanup EXCEPT
                     !.pc = "done",
                     !.result = ensure_sql_compatibility(cleanup.df, cleanup.current_dataset)]
    /\ UNCHANGED <<EngineVars, cache, transformer, generator, reporter>>

NextCleanup == CleanupExecute

SpecCleanup == InitCleanup /\ [][NextCleanup]_vars

\* C28: after FinalCleanup on the table of a dataset that has a schema, the
\* AccountID values are pairwise different, the first row of each value has
\* kept it, and the table has as many rows as before.
C28_AccountIdsDistinct ==
    cleanup.pc = "done" /\ get_schema_for_dataset(cleanup.current_dataset) # EmptySchema =>
        /\ Len(cleanup.result) = Len(cleanup.df)
        /\ \A i, j \in DOMAIN cleanup.result :
              cleanup.result[i] = cleanup.result[j] => i = j
        /\ \A k \in DOMAIN cleanup.df :
              (\A j \in 1..(k - 1) : cleanup.df[j] # cleanup.df[k])
                  => cleanup.result[k] = cleanup.df[k]

====
